---- MODULE Spec2Model ----
(***************************************************************************)
(* Model of the idea-explorer research pipeline:                           *)
(*   - PipelineState (src/core/pipeline_orchestrator.py), in memory and    *)
(*     on disk (.idea-explorer/pipeline_state.json);                       *)
(*   - ResearchPipelineOrchestrator.run_pipeline / resume_pipeline;        *)
(*   - the three agent runners (run_resource_finder,                       *)
(*     _run_experiment_runner, run_paper_writer) and the subprocess they   *)
(*     drive: Popen, stdin write, the readline loop, wait(timeout), kill;  *)
(*   - ResearchRunner.run_research (multi-agent mode) and                  *)
(*     _finalize_research, and the exit status of main;                    *)
(*   - in a second specification, SpecIO, what one runner passes to the    *)
(*     agent process (environment) and does with each line it prints       *)
(*     (sanitize_text, echo, log, transcript), up to commit_and_push.      *)
(* Time is counted in ticks; one tick passes whenever the runner is        *)
(* blocked in readline or in wait.                                         *)
(***************************************************************************)
EXTENDS Integers, Sequences, FiniteSets, TLC

\* ---------------------------------------------------------------- bounds
\* timeout (in ticks) passed to every agent runner
TimeoutTicks == 2
\* ticks after the timeout that still count as "shortly after"
KillSlack == 1
\* output lines an agent emits at most in one invocation
MaxLines == 1
\* most lines an agent prints in the specification that follows its output
MaxOutput == 3
\* calls of run_research / run_pipeline / resume_pipeline on the working dir
MaxRuns == 2

\* largest max_retries given to retry_with_backoff
MaxRetries == 2

\* the clock stops one tick after that
MaxClock == TimeoutTicks + KillSlack + 1

\* ---------------------------------------------------------------- names
RF == "resource_finder"
HR == "human_review"
EXP == "experiment_runner"
PW == "paper_writer"

Stages == {RF, HR, EXP}
Agents == {RF, EXP, PW}

VARIABLES
    state,       \* PipelineState.state of the live orchestrator (in memory)
    disk,        \* pipeline_state.json: [exists, content]
    marker,      \* .resource_finder_complete exists in the working directory
    idea_status, \* status the idea manager tracks for the idea
    pc,          \* position of the running call ("idle": no call running)
    caller,      \* "run_research", or "api" / "resume": run_pipeline / resume_pipeline called directly
    flags,       \* arguments of the running call
    results,     \* the results dictionary of run_pipeline
    outcome,     \* what the caller of run_pipeline / resume_pipeline obtained
    success,     \* local `success` of run_research: "unset", "True", "False"
    paper,       \* paper_result of run_research: "none", "ok", "failed", "timeout", "error"
    agent,       \* the agent whose runner is executing ("none" outside runners)
    proc,        \* per agent, the process it spawned: "none", "running", "exited", "killed"
    stdout_open, \* the running agent's output stream is still open
    return_code, \* per agent, the value process.wait returned ("none" before)
    nread,       \* lines read from the running agent
    elapsed,     \* ticks since the running agent was spawned
    waited,      \* ticks since process.wait(timeout) was called
    trace,       \* calls made so far by the running call, in order
    runs,        \* calls started so far
    exit_code,   \* exit status of the command-line process (-1 while it has not exited)
    \* --- what a runner reads, writes and passes on (the specification SpecIO)
    io_pc,       \* position of the runner whose input and output is followed
    io_agent,    \* that runner: an agent stage or the legacy single-agent run
    environ,     \* names of the variables in os.environ of the orchestrator
    child_env,   \* names of the variables in the env handed to Popen
    emitted,     \* lines the agent process printed, as readline returned them
    echoed,      \* lines printed to the caller's live output
    logs,        \* content of the files in logs/, per kind of file
    staged,      \* content of logs/ as staged by commit_and_push
    io_cfg,      \* what that runner was called with: provider known, scribe, idea complete
    \* --- one call of a function wrapped by retry_with_backoff (SpecRetry)
    r_pc,        \* position in wrapper: "off", "attempt", "sleep", "done"
    r_cfg,       \* max_retries, base_delay, backoff_factor, max_delay and the form used
    attempt,     \* loop variable of wrapper
    delay,       \* local `delay` of wrapper
    history,     \* what each invocation of the wrapped function did, in order
    sleeps,      \* durations passed to time.sleep, in order
    r_result,    \* what the caller of wrapper obtained
    \* --- PipelineState queried on an arbitrary state file (SpecQuery)
    fn_in,       \* the loaded state dictionary
    fn_out,      \* the answers obtained so far
    \* --- two orchestrator instances on one working directory (SpecDuo)
    duo_pc,      \* per instance, how far it is in the stage sequence
    duo_mem,     \* per instance, PipelineState.state in memory
    duo_disk,    \* the one pipeline_state.json they share
    duo_acked,   \* per instance, the records it wrote to the file and found there after its write
    \* --- one PipelineState whose process may be killed at any instant (SpecSave)
    sv_pc,       \* where the process is: "ready", "opening", "dumping", "dead", "unloadable"
    sv_mem,      \* PipelineState.state in memory
    sv_file,     \* pipeline_state.json: what kind of content it has, and the state it holds
    sv_before,   \* the state before the mutation being written
    sv_after     \* the state after the mutation being written

vars == <<state, disk, marker, idea_status, pc, caller, flags, results, outcome,
          success, paper, agent, proc, stdout_open, return_code, nread,
          elapsed, waited, trace, runs, exit_code,
          io_pc, io_agent, environ, child_env, emitted, echoed, logs, staged, io_cfg,
          r_pc, r_cfg, attempt, delay, history, sleeps, r_result,
          fn_in, fn_out, duo_pc, duo_mem, duo_disk, duo_acked,
          sv_pc, sv_mem, sv_file, sv_before, sv_after>>

ioVars == <<io_pc, io_agent, environ, child_env, emitted, echoed, logs, staged,
           io_cfg>>

retryVars == <<r_pc, r_cfg, attempt, delay, history, sleeps, r_result>>

queryVars == <<fn_in, fn_out>>

duoVars == <<duo_pc, duo_mem, duo_disk, duo_acked>>

saveVars == <<sv_pc, sv_mem, sv_file, sv_before, sv_after>>

\* the variables of the pipeline itself
vars_pipeline == <<state, disk, marker, idea_status, pc, caller, flags, results,
                   outcome, success, paper, agent, proc, stdout_open, return_code,
                   nread, elapsed, waited, trace, runs, exit_code>>

\* what each specification leaves alone
outsideSpec == <<ioVars, retryVars, queryVars, duoVars, saveVars>>
outsideIO == <<vars_pipeline, retryVars, queryVars, duoVars, saveVars>>
outsideRetry == <<vars_pipeline, ioVars, queryVars, duoVars, saveVars>>
outsideQuery == <<vars_pipeline, ioVars, retryVars, duoVars, saveVars>>
outsideDuo == <<vars_pipeline, ioVars, retryVars, queryVars, saveVars>>
outsideSave == <<vars_pipeline, ioVars, retryVars, queryVars, duoVars>>

procVars == <<agent, proc, stdout_open, return_code, nread, elapsed, waited>>

\* ------------------------------------------------------- PipelineState
\* a stage name that is not a key of state['stages']
Absent == [status |-> "absent", started_at |-> FALSE, completed_at |-> FALSE,
           success |-> "None", outputs |-> "none"]

\* Python's bool as stored in the state file
PyBool(b) == IF b THEN "True" ELSE "False"

\* PipelineState.__init__, the branch taken when no state file exists
FreshState == [created_at |-> "timestamp",
               stages |-> [s \in Stages |-> Absent],
               current_stage |-> "None",
               completed |-> FALSE,
               completed_at |-> "missing"]

\* JSON text of a Python value: None, True and False become null, true and
\* false; a string stays a string
json_value(v) ==
    CASE v = "None" -> "null"
      [] v = "True" -> "true"
      [] v = "False" -> "false"
      [] OTHER -> v

\* the Python value of a JSON text
python_value(j) ==
    CASE j = "null" -> "None"
      [] j = "true" -> "True"
      [] j = "false" -> "False"
      [] OTHER -> j

\* json.dump(self.state): an object with a member for every key of the
\* dictionary ('completed_at' is a key only once mark_completed has run);
\* 'stages' has a member only for the stages that have a record, a record
\* without 'started_at' has no such member, a None completed_at is null
json_dump(st) ==
    [stages |-> [s \in {n \in Stages : st.stages[n].status # "absent"} |->
                    [status |-> st.stages[s].status,
                     started_at |-> IF st.stages[s].started_at
                                    THEN "timestamp" ELSE "missing",
                     completed_at |-> IF st.stages[s].completed_at
                                      THEN "timestamp" ELSE "null",
                     success |-> json_value(st.stages[s].success),
                     outputs |-> st.stages[s].outputs]],
     current_stage |-> json_value(st.current_stage),
     completed |-> json_value(PyBool(st.completed))]
        @@ [m \in {"created_at"} \cup
                  (IF st.completed_at = "missing" THEN {} ELSE {"completed_at"}) |->
                IF m = "created_at" THEN st.created_at ELSE st.completed_at]

\* json.load of such a text
json_load(doc) ==
    [stages |-> [s \in Stages |->
                    IF s \in DOMAIN doc.stages
                    THEN [status |-> doc.stages[s].status,
                          started_at |-> doc.stages[s].started_at = "timestamp",
                          completed_at |-> doc.stages[s].completed_at = "timestamp",
                          success |-> python_value(doc.stages[s].success),
                          outputs |-> doc.stages[s].outputs]
                    ELSE Absent],
     current_stage |-> python_value(doc.current_stage),
     completed |-> python_value(doc.completed) = "True",
     created_at |-> doc.created_at,
     completed_at |-> IF "completed_at" \in DOMAIN doc
                      THEN doc.completed_at ELSE "missing"]

\* PipelineState.__init__: json.load of the state file when it exists (content
\* is what json.load yields from the file), a new dictionary otherwise
LoadState(d) == IF d.exists THEN d.content ELSE FreshState

\* (mutant) the mutation returns without writing the state file
Save_NotFlushed(st) ==
    IF disk.exists THEN disk ELSE [exists |-> TRUE, content |-> FreshState]

\* PipelineState._save: the file is rewritten with json.dump(self.state)
Save(st) == [exists |-> TRUE, content |-> json_load(json_dump(st))]

\* (mutant) start_stage records the stage as completed at once
start_stage_Completes(st, name) ==
    [st EXCEPT !.current_stage = name,
               !.stages[name] = [status |-> "completed", started_at |-> TRUE,
                                 completed_at |-> FALSE, success |-> "True",
                                 outputs |-> "empty"]]

\* (mutant) start_stage updates an existing record instead of replacing it
start_stage_KeepsRecord(st, name) ==
    [st EXCEPT !.current_stage = name,
               !.stages[name] = IF st.stages[name].status = "absent"
                                THEN [status |-> "in_progress", started_at |-> TRUE,
                                      completed_at |-> FALSE, success |-> "None",
                                      outputs |-> "empty"]
                                ELSE [st.stages[name] EXCEPT !.status = "in_progress",
                                                             !.started_at = TRUE]]

\* PipelineState.start_stage
start_stage(st, name) ==
    [st EXCEPT !.current_stage = name,
               !.stages[name] = [status |-> "in_progress", started_at |-> TRUE,
                                 completed_at |-> FALSE, success |-> "None",
                                 outputs |-> "empty"]]

\* (mutant) complete_stage refuses a stage that was never started
complete_stage_StartedOnly(st, name, ok, outs) ==
    IF st.stages[name].status = "absent"
    THEN st
    ELSE [st EXCEPT !.current_stage = "None",
                    !.stages[name] = [status |-> IF ok THEN "completed" ELSE "failed",
                                      started_at |-> st.stages[name].started_at,
                                      completed_at |-> TRUE,
                                      success |-> PyBool(ok),
                                      outputs |-> outs]]

\* PipelineState.complete_stage; outs is the outputs argument ("empty" for {} or None)
complete_stage(st, name, ok, outs) ==
    [st EXCEPT !.current_stage = "None",
               !.stages[name] = [status |-> IF ok THEN "completed" ELSE "failed",
                                 started_at |-> st.stages[name].started_at,
                                 completed_at |-> TRUE,
                                 success |-> PyBool(ok),
                                 outputs |-> outs]]

\* mark_completed that sets nothing
mark_completed_Forgotten(st) == st

\* (mutant) mark_completed also clears current_stage
mark_completed_EndsStage(st) ==
    [st EXCEPT !.completed = TRUE, !.completed_at = "timestamp",
               !.current_stage = "None"]

\* PipelineState.mark_completed
mark_completed(st) == [st EXCEPT !.completed = TRUE, !.completed_at = "timestamp"]

\* (mutant) the stored success value is not looked at
is_stage_completed_StatusOnly(st, name) ==
    st.stages[name].status = "completed"

\* PipelineState.is_stage_completed
is_stage_completed(st, name) ==
    st.stages[name].status = "completed" /\ st.stages[name].success = "True"

\* ------------------------------------------------------- results of a call
NoEntry == [present |-> FALSE, success |-> FALSE, detail |-> "none"]

Entry(ok, d) == [present |-> TRUE, success |-> ok, detail |-> d]

\* run_pipeline: the initial results dictionary
EmptyResults == [success |-> FALSE, stages |-> [s \in Stages |-> NoEntry], error |-> FALSE]

NoProc == [a \in Agents |-> "none"]
\* Popen.returncode is None until wait returns; -1 stands for None
NoCode == [a \in Agents |-> -1]
NoFlags == [skip_resource_finder |-> FALSE, pause_after_resources |-> FALSE,
            write_paper |-> FALSE, use_github |-> FALSE]

\* exit codes of an agent process the model distinguishes
ExitCodes == {0, 1}

\* the kinds of file the runners write into logs/: the log (*.log), the
\* transcript (*.jsonl) and the saved prompt (*.txt)
LogKinds == {"log", "jsonl", "txt"}
\* logs/ with every file empty or missing
NoLogs == [k \in LogKinds |-> << >>]

\* no runner's input and output is followed
IOIdle ==
    /\ io_pc = "off"
    /\ io_agent = "none"
    /\ environ = {}
    /\ child_env = {}
    /\ emitted = << >>
    /\ echoed = << >>
    /\ logs = NoLogs
    /\ staged = NoLogs
    /\ io_cfg = [provider_known |-> TRUE, use_scribe |-> FALSE]

\* no wrapped call is followed
RetryIdle ==
    /\ r_pc = "off"
    /\ r_cfg = [max_retries |-> 0, base_delay |-> 0, backoff_factor |-> 0,
                max_delay |-> 0, form |-> "none"]
    /\ attempt = 0
    /\ delay = 0
    /\ history = << >>
    /\ sleeps = << >>
    /\ r_result = [how |-> "none", kind |-> "none", by |-> 0, value |-> 0]

\* no state file is queried
QueryIdle ==
    /\ fn_in = FreshState
    /\ fn_out = {}

\* no second orchestrator instance
DuoIdle ==
    /\ duo_pc = << >>
    /\ duo_mem = << >>
    /\ duo_disk = [exists |-> FALSE, content |-> FreshState]
    /\ duo_acked = << >>

\* no PipelineState is followed through its writes
SaveIdle ==
    /\ sv_pc = "off"
    /\ sv_mem = FreshState
    /\ sv_file = [kind |-> "missing", content |-> FreshState]
    /\ sv_before = FreshState
    /\ sv_after = FreshState

\* the pipeline before any call, in a fresh working directory
PipelineInit ==
    /\ state = FreshState
    /\ disk = [exists |-> FALSE, content |-> FreshState]
    /\ marker = FALSE
    /\ idea_status = "submitted"
    /\ pc = "idle"
    /\ caller = "none"
    /\ flags = NoFlags
    /\ results = EmptyResults
    /\ outcome = "none"
    /\ success = "unset"
    /\ paper = "none"
    /\ agent = "none"
    /\ proc = NoProc
    /\ stdout_open = FALSE
    /\ return_code = NoCode
    /\ nread = 0
    /\ elapsed = 0
    /\ waited = 0
    /\ trace = << >>
    /\ runs = 0
    /\ exit_code = -1

Init ==
    /\ PipelineInit
    /\ IOIdle
    /\ RetryIdle
    /\ QueryIdle
    /\ DuoIdle
    /\ SaveIdle

\* ------------------------------------------------------- entry points
\* callers that use the orchestrator directly, without run_research
DirectCallers == {"api", "resume"}

Log(ev) == trace' = Append(trace, ev)

Count(ev) == Cardinality({i \in 1..Len(trace) : trace[i] = ev})

\* ResearchPipelineOrchestrator.__init__ -> PipelineState.__init__
Construct ==
    /\ state' = LoadState(disk)
    /\ disk' = IF disk.exists THEN disk ELSE Save(FreshState)

BeginCall(who, fl) ==
    /\ pc = "idle"
    /\ runs < MaxRuns
    /\ runs' = runs + 1
    /\ caller' = who
    /\ flags' = fl
    /\ UNCHANGED <<results, outcome, success, paper, procVars, trace, exit_code, outsideSpec>>

\* run_research up to the call of run_pipeline (multi-agent mode)
CallRunResearch ==
    \E skip \in BOOLEAN, pause \in BOOLEAN, wp \in BOOLEAN, gh \in BOOLEAN :
        /\ BeginCall("run_research",
                     [skip_resource_finder |-> skip, pause_after_resources |-> pause,
                      write_paper |-> wp, use_github |-> gh])
        /\ Construct
        /\ idea_status' = "in_progress"
        /\ pc' = "rp_stage1"
        /\ UNCHANGED marker

\* run_pipeline called directly on an orchestrator
CallRunPipeline ==
    \E skip \in BOOLEAN, pause \in BOOLEAN :
        /\ BeginCall("api",
                     [skip_resource_finder |-> skip, pause_after_resources |-> pause,
                      write_paper |-> FALSE, use_github |-> FALSE])
        /\ Construct
        /\ pc' = "rp_stage1"
        /\ UNCHANGED <<marker, idea_status>>

\* (mutant) resume_pipeline always skips the resource finder
CallResumePipeline_AlwaysSkips ==
    \E pause \in BOOLEAN :
        LET st == LoadState(disk)
            resource_finder_done == is_stage_completed(st, RF)
            experiment_runner_done == is_stage_completed(st, EXP)
        IN  /\ BeginCall("resume",
                         [skip_resource_finder |-> TRUE,
                          pause_after_resources |-> pause,
                          write_paper |-> FALSE, use_github |-> FALSE])
            /\ Construct
            /\ pc' = IF resource_finder_done /\ experiment_runner_done
                     THEN "resume_done" ELSE "rp_stage1"
            /\ UNCHANGED <<marker, idea_status>>

\* resume_pipeline called directly on an orchestrator
CallResumePipeline ==
    \E pause \in BOOLEAN :
        LET st == LoadState(disk)
            resource_finder_done == is_stage_completed(st, RF)
            experiment_runner_done == is_stage_completed(st, EXP)
        IN  /\ BeginCall("resume",
                         [skip_resource_finder |-> resource_finder_done,
                          pause_after_resources |-> pause,
                          write_paper |-> FALSE, use_github |-> FALSE])
            /\ Construct
            /\ pc' = IF resource_finder_done /\ experiment_runner_done
                     THEN "resume_done" ELSE "rp_stage1"
            /\ UNCHANGED <<marker, idea_status>>

\* (mutant) resume_pipeline runs the pipeline again although both stages are done
ResumeShortCircuit_Reruns ==
    /\ pc = "resume_done"
    /\ pc' = "rp_stage1"
    /\ UNCHANGED <<state, disk, marker, idea_status, caller, flags, results, outcome,
                   success, paper, procVars, trace, runs, exit_code, outsideSpec>>

\* resume_pipeline: the already-complete return, {'success': True, 'resumed':
\* False, 'message': ...}: a dictionary without 'stages'
ResumeShortCircuit ==
    /\ pc = "resume_done"
    /\ pc' = "rp_returned"
    /\ outcome' = "shortcircuit"
    /\ results' = [EmptyResults EXCEPT !.success = TRUE]
    /\ UNCHANGED <<state, disk, marker, idea_status, caller, flags,
                   success, paper, procVars, trace, runs, exit_code, outsideSpec>>

\* ------------------------------------------------------- run_pipeline
\* run_pipeline: `except Exception` (results['error'] is set, the exception is
\* re-raised) after the stage left the Pipeline State st
PipelineRaises(st) ==
    /\ state' = st
    /\ disk' = IF st = state THEN disk ELSE Save(st)
    /\ results' = [results EXCEPT !.error = TRUE]
    /\ outcome' = "raised"
    /\ pc' = "rp_raised"

\* run_pipeline: `return results`
PipelineReturns(st, res) ==
    /\ state' = st
    /\ disk' = Save(st)
    /\ results' = res
    /\ outcome' = "results"
    /\ pc' = "rp_returned"

\* RFSkip that leaves no resource_finder entry in results['stages']
RFSkip_NoEntry ==
    /\ pc = "rp_stage1"
    /\ flags.skip_resource_finder
    /\ state' = complete_stage(state, RF, TRUE, "skipped")
    /\ disk' = Save(state')
    /\ pc' = "rp_stage2"
    /\ Log(<<"complete_stage", RF>>)
    /\ UNCHANGED <<marker, idea_status, caller, flags, results, outcome, success,
                   paper, procVars, runs, exit_code, outsideSpec>>

\* run_pipeline stage 1 with skip_resource_finder: complete_stage, no process
RFSkip ==
    /\ pc = "rp_stage1"
    /\ flags.skip_resource_finder
    /\ state' = complete_stage(state, RF, TRUE, "skipped")
    /\ disk' = Save(state')
    /\ results' = [results EXCEPT !.stages[RF] = Entry(TRUE, "skipped")]
    /\ pc' = "rp_stage2"
    /\ Log(<<"complete_stage", RF>>)
    /\ UNCHANGED <<marker, idea_status, caller, flags, outcome, success, paper,
                   procVars, runs, exit_code, outsideSpec>>

\* (mutant) the stage body is entered before start_stage has been saved
RFStart_NotPersisted ==
    /\ pc = "rp_stage1"
    /\ ~flags.skip_resource_finder
    /\ state' = start_stage(state, RF)
    /\ disk' = disk
    /\ agent' = RF
    /\ pc' = "setup"
    /\ Log(<<"start_stage", RF>>)
    /\ UNCHANGED <<marker, idea_status, caller, flags, results, outcome, success,
                   paper, proc, stdout_open, return_code, nread, elapsed, waited, runs, exit_code, outsideSpec>>

\* _run_resource_finder: start_stage, then run_resource_finder is entered
RFStart ==
    /\ pc = "rp_stage1"
    /\ ~flags.skip_resource_finder
    /\ state' = start_stage(state, RF)
    /\ disk' = Save(state')
    /\ agent' = RF
    /\ pc' = "setup"
    /\ Log(<<"start_stage", RF>>)
    /\ UNCHANGED <<marker, idea_status, caller, flags, results, outcome, success,
                   paper, proc, stdout_open, return_code, nread, elapsed, waited, runs, exit_code, outsideSpec>>

\* _wait_for_human_approval: start_stage, then block on input()
HRStart ==
    /\ pc = "rp_stage2"
    /\ flags.pause_after_resources
    /\ state' = start_stage(state, HR)
    /\ disk' = Save(state')
    /\ pc' = "hr_input"
    /\ Log(<<"start_stage", HR>>)
    /\ UNCHANGED <<marker, idea_status, caller, flags, results, outcome, success,
                   paper, procVars, runs, exit_code, outsideSpec>>

\* what the operator types, after strip().lower()
Responses == {"yes", "y", "no", ""}

\* (mutant) the pipeline goes on to the experiment runner whatever the answer
HRAnswer_Continues ==
    /\ pc = "hr_input"
    /\ \E response \in Responses :
        LET approved == response \in {"yes", "y"}
            st == complete_stage(state, HR, approved, "result")
            res == [results EXCEPT !.stages[HR] = Entry(approved, "review")]
        IN  /\ state' = st
            /\ disk' = Save(st)
            /\ results' = res
            /\ pc' = "rp_stage3"
            /\ UNCHANGED outcome
    /\ Log(<<"complete_stage", HR>>)
    /\ UNCHANGED <<marker, idea_status, caller, flags, success, paper, procVars, runs, exit_code, outsideSpec>>

\* _wait_for_human_approval: the operator answers; complete_stage with the answer
HRAnswer ==
    /\ pc = "hr_input"
    /\ \E response \in Responses :
        LET approved == response \in {"yes", "y"}
            st == complete_stage(state, HR, approved, "result")
            res == [results EXCEPT !.stages[HR] = Entry(approved, "review")]
        IN  IF approved
            THEN /\ state' = st
                 /\ disk' = Save(st)
                 /\ results' = res
                 /\ pc' = "rp_stage3"
                 /\ UNCHANGED outcome
            ELSE PipelineReturns(st, res)
    /\ Log(<<"complete_stage", HR>>)
    /\ UNCHANGED <<marker, idea_status, caller, flags, success, paper, procVars, runs, exit_code, outsideSpec>>

\* _wait_for_human_approval: input() raises (EOFError on a closed stdin);
\* nothing catches it before run_pipeline, the stage is left in_progress
HRInputFails ==
    /\ pc = "hr_input"
    /\ PipelineRaises(state)
    /\ UNCHANGED <<marker, idea_status, caller, flags, success, paper, procVars,
                   trace, runs, exit_code, outsideSpec>>

\* _run_experiment_runner: start_stage, then the stage body
EXPStart ==
    /\ \/ pc = "rp_stage2" /\ ~flags.pause_after_resources
       \/ pc = "rp_stage3"
    /\ state' = start_stage(state, EXP)
    /\ disk' = Save(state')
    /\ agent' = EXP
    /\ pc' = "setup"
    /\ Log(<<"start_stage", EXP>>)
    /\ UNCHANGED <<marker, idea_status, caller, flags, results, outcome, success,
                   paper, proc, stdout_open, return_code, nread, elapsed, waited, runs, exit_code, outsideSpec>>

\* run_pipeline: the experiment runner succeeded: mark_completed, success = True
MarkCompleted ==
    /\ pc = "rp_mark"
    /\ PipelineReturns(mark_completed(state), [results EXCEPT !.success = TRUE])
    /\ Log(<<"mark_completed">>)
    /\ UNCHANGED <<marker, idea_status, caller, flags, success, paper, procVars, runs, exit_code, outsideSpec>>

\* ------------------------------------------------------- agent runners
\* How a runner ends. how = "returned": process.wait returned code;
\* "timeout": TimeoutExpired was caught (the process has been killed);
\* "exception": any other exception was raised in the runner.
\* evs are the calls the ending step itself made before.

\* RFEnds without run_pipeline's early `return results` on a failed stage
RFEnds_NoAbort(how, evs) ==
    IF how = "exception"
    THEN /\ PipelineRaises(complete_stage(state, RF, FALSE, "empty"))
         /\ trace' = evs \o << <<"complete_stage", RF>> >>
    ELSE \E found \in {"empty", "found"} :
         LET ok == (how = "returned") /\ marker
             st == complete_stage(state, RF, ok, found)
         IN  /\ state' = st
             /\ disk' = Save(st)
             /\ results' = [results EXCEPT !.stages[RF] = Entry(ok, "run")]
             /\ pc' = "rp_stage2"
             /\ UNCHANGED outcome
             /\ trace' = evs \o << <<"complete_stage", RF>> >>

\* (mutant) an exception of run_resource_finder propagates without the
\* failed record being written
RFEnds_RaisesUnrecorded(how, evs) ==
    IF how = "exception"
    THEN /\ PipelineRaises(state)
         /\ trace' = evs
    ELSE \E found \in {"empty", "found"} :
         LET ok == (how = "returned") /\ marker
             st == complete_stage(state, RF, ok, found)
             res == [results EXCEPT !.stages[RF] = Entry(ok, "run")]
         IN  /\ IF ok
                THEN /\ state' = st
                     /\ disk' = Save(st)
                     /\ results' = res
                     /\ pc' = "rp_stage2"
                     /\ UNCHANGED outcome
                ELSE PipelineReturns(st, res)
             /\ trace' = evs \o << <<"complete_stage", RF>> >>

\* (mutant) run_resource_finder reports success whenever the process ended
RFEnds_IgnoresMarker(how, evs) ==
    IF how = "exception"
    THEN /\ PipelineRaises(complete_stage(state, RF, FALSE, "empty"))
         /\ trace' = evs \o << <<"complete_stage", RF>> >>
    ELSE \E found \in {"empty", "found"} :
         LET ok == (how = "returned")
             st == complete_stage(state, RF, ok, found)
             res == [results EXCEPT !.stages[RF] = Entry(ok, "run")]
         IN  /\ IF ok
                THEN /\ state' = st
                     /\ disk' = Save(st)
                     /\ results' = res
                     /\ pc' = "rp_stage2"
                     /\ UNCHANGED outcome
                ELSE PipelineReturns(st, res)
             /\ trace' = evs \o << <<"complete_stage", RF>> >>

\* run_resource_finder and the rest of _run_resource_finder, then run_pipeline
RFEnds(how, evs) ==
    IF how = "exception"
    THEN \* run_resource_finder re-raises; _run_resource_finder records the
         \* failure and re-raises; run_pipeline re-raises
         /\ PipelineRaises(complete_stage(state, RF, FALSE, "empty"))
         /\ trace' = evs \o << <<"complete_stage", RF>> >>
    ELSE \E found \in {"empty", "found"} :
         LET ok == (how = "returned") /\ marker
             st == complete_stage(state, RF, ok, found)
             res == [results EXCEPT !.stages[RF] = Entry(ok, "run")]
         IN  /\ IF ok
                THEN /\ state' = st
                     /\ disk' = Save(st)
                     /\ results' = res
                     /\ pc' = "rp_stage2"
                     /\ UNCHANGED outcome
                ELSE PipelineReturns(st, res)
             /\ trace' = evs \o << <<"complete_stage", RF>> >>

\* EXPEnds that captures an exception into a returned failure result
EXPEnds_Captures(how, code, evs) ==
    LET ok == (how = "returned") /\ code = 0
        st == complete_stage(state, EXP, ok, "result")
        res == [results EXCEPT !.stages[EXP] =
                   Entry(ok, IF how = "returned" THEN "run" ELSE how)]
    IN  /\ IF ok
           THEN /\ state' = st
                /\ disk' = Save(st)
                /\ results' = res
                /\ pc' = "rp_mark"
                /\ UNCHANGED outcome
           ELSE PipelineReturns(st, res)
        /\ trace' = evs \o << <<"complete_stage", EXP>> >>

\* EXPEnds where run_pipeline marks the pipeline completed whatever the stage returned
EXPEnds_AlwaysMark(how, code, evs) ==
    IF how = "exception"
    THEN /\ PipelineRaises(complete_stage(state, EXP, FALSE, "result"))
         /\ trace' = evs \o << <<"complete_stage", EXP>> >>
    ELSE LET ok == (how = "returned") /\ code = 0
             st == complete_stage(state, EXP, ok, "result")
         IN  /\ state' = st
             /\ disk' = Save(st)
             /\ results' = [results EXCEPT !.stages[EXP] =
                               Entry(ok, IF how = "timeout" THEN "timeout" ELSE "run")]
             /\ pc' = "rp_mark"
             /\ UNCHANGED outcome
             /\ trace' = evs \o << <<"complete_stage", EXP>> >>

\* EXPEnds where a failed agent (non-zero exit, timeout) is raised like an exception
EXPEnds_FailureRaises(how, code, evs) ==
    LET ok == (how = "returned") /\ code = 0
        st == complete_stage(state, EXP, ok, "result")
    IN  /\ IF ok
           THEN /\ state' = st
                /\ disk' = Save(st)
                /\ results' = [results EXCEPT !.stages[EXP] = Entry(ok, "run")]
                /\ pc' = "rp_mark"
                /\ UNCHANGED outcome
           ELSE PipelineRaises(st)
        /\ trace' = evs \o << <<"complete_stage", EXP>> >>

\* the rest of _run_experiment_runner, then run_pipeline
EXPEnds(how, code, evs) ==
    IF how = "exception"
    THEN /\ PipelineRaises(complete_stage(state, EXP, FALSE, "result"))
         /\ trace' = evs \o << <<"complete_stage", EXP>> >>
    ELSE LET ok == (how = "returned") /\ code = 0
             st == complete_stage(state, EXP, ok, "result")
             res == [results EXCEPT !.stages[EXP] =
                        Entry(ok, IF how = "timeout" THEN "timeout" ELSE "run")]
         IN  /\ IF ok
                THEN /\ state' = st
                     /\ disk' = Save(st)
                     /\ results' = res
                     /\ pc' = "rp_mark"
                     /\ UNCHANGED outcome
                ELSE PipelineReturns(st, res)
             /\ trace' = evs \o << <<"complete_stage", EXP>> >>

\* the rest of run_paper_writer: every ending is a returned dictionary
PWEnds(how, code, evs) ==
    /\ paper' = CASE how = "exception" -> "error"
                  [] how = "timeout" -> "timeout"
                  [] OTHER -> IF code = 0 THEN "ok" ELSE "failed"
    /\ pc' = "finalize"
    /\ trace' = evs
    /\ UNCHANGED <<state, disk, results, outcome>>

\* the runner's frame is gone with it
LocalsGone ==
    /\ agent' = "none"
    /\ stdout_open' = FALSE
    /\ nread' = 0
    /\ elapsed' = 0
    /\ waited' = 0

RunnerEnds(how, code, evs) ==
    /\ LocalsGone
    /\ CASE agent = RF -> RFEnds(how, trace \o evs) /\ UNCHANGED paper
         [] agent = EXP -> EXPEnds(how, code, trace \o evs) /\ UNCHANGED paper
         [] agent = PW -> PWEnds(how, code, trace \o evs)
    /\ UNCHANGED <<marker, idea_status, caller, flags, success, runs, exit_code, outsideSpec>>

\* the part of a stage body before Popen: prompt generation, files, command
Setup ==
    /\ pc = "setup"
    /\ pc' = "spawn"
    /\ UNCHANGED <<state, disk, marker, idea_status, caller, flags, results, outcome,
                   success, paper, procVars, trace, runs, exit_code, outsideSpec>>

\* that part raises (unsupported provider, missing template, unwritable file);
\* run_paper_writer does this outside its try block
SetupFails ==
    /\ pc = "setup"
    /\ IF agent = PW
       THEN \* run_research: `except Exception`: success = False
            /\ success' = "False"
            /\ pc' = "finalize"
            /\ LocalsGone
            /\ UNCHANGED <<state, disk, marker, idea_status, caller, flags, results,
                           outcome, paper, trace, runs, exit_code, outsideSpec>>
       ELSE RunnerEnds("exception", 0, << >>)
    /\ UNCHANGED <<proc, return_code>>

\* subprocess.Popen
Spawn ==
    /\ pc = "spawn"
    /\ proc' = [proc EXCEPT ![agent] = "running"]
    /\ stdout_open' = TRUE
    /\ nread' = 0
    /\ elapsed' = 0
    /\ waited' = 0
    /\ pc' = "write"
    /\ Log(<<"spawn", agent>>)
    /\ UNCHANGED <<state, disk, marker, idea_status, caller, flags, results, outcome,
                   success, paper, agent, return_code, runs, exit_code, outsideSpec>>

\* subprocess.Popen raises (command not found)
SpawnFails ==
    /\ pc = "spawn"
    /\ RunnerEnds("exception", 0, << >>)
    /\ UNCHANGED <<proc, return_code>>

\* process.stdin.write(prompt); process.stdin.close()
WritePrompt ==
    /\ pc = "write"
    /\ pc' = "read"
    /\ UNCHANGED <<state, disk, marker, idea_status, caller, flags, results, outcome,
                   success, paper, procVars, trace, runs, exit_code, outsideSpec>>

\* writing the prompt raises (broken pipe); the process is not killed
WriteFails ==
    /\ pc = "write"
    /\ RunnerEnds("exception", 0, << >>)
    /\ UNCHANGED <<proc, return_code>>

\* the readline loop: one line arrives and is written to the log
ReadLine ==
    /\ pc = "read"
    /\ nread < MaxLines
    /\ nread' = nread + 1
    /\ UNCHANGED <<state, disk, marker, idea_status, pc, caller, flags, results,
                   outcome, success, paper, agent, proc, stdout_open, return_code,
                   elapsed, waited, trace, runs, exit_code, outsideSpec>>

\* the readline loop: readline blocks for a tick, the stream is open and silent;
\* no timeout is armed in the loop
ReadBlocked ==
    /\ pc = "read"
    /\ elapsed < MaxClock
    /\ elapsed' = elapsed + 1
    /\ UNCHANGED <<state, disk, marker, idea_status, pc, caller, flags, results,
                   outcome, success, paper, agent, proc, stdout_open, return_code,
                   nread, waited, trace, runs, exit_code, outsideSpec>>

\* the readline loop: end of stream (the process closed its output or exited);
\* process.wait(timeout) is called next
ReadEOF ==
    /\ pc = "read"
    /\ stdout_open' = FALSE
    /\ waited' = 0
    /\ pc' = "wait"
    /\ UNCHANGED <<state, disk, marker, idea_status, caller, flags, results, outcome,
                   success, paper, agent, proc, return_code, nread, elapsed, trace, runs, exit_code, outsideSpec>>

\* the readline loop: readline raises (decoding error, I/O error)
ReadFails ==
    /\ pc = "read"
    /\ RunnerEnds("exception", 0, << >>)
    /\ UNCHANGED <<proc, return_code>>

\* the resource-finder agent creates the completion marker while it runs
AgentWritesMarker ==
    /\ pc \in {"read", "wait"}
    /\ agent = RF
    /\ proc[RF] = "running"
    /\ ~marker
    /\ marker' = TRUE
    /\ UNCHANGED <<state, disk, idea_status, pc, caller, flags, results, outcome,
                   success, paper, procVars, trace, runs, exit_code, outsideSpec>>

\* process.wait(timeout): the process has exited, wait returns its code
WaitReturns ==
    /\ pc = "wait"
    /\ \E code \in ExitCodes :
        /\ proc' = [proc EXCEPT ![agent] = "exited"]
        /\ return_code' = [return_code EXCEPT ![agent] = code]
        /\ RunnerEnds("returned", code, << >>)

\* process.wait(timeout): the process is still running, a tick passes
WaitTick ==
    /\ pc = "wait"
    /\ waited < TimeoutTicks
    /\ waited' = waited + 1
    /\ elapsed' = IF elapsed < MaxClock THEN elapsed + 1 ELSE elapsed
    /\ UNCHANGED <<state, disk, marker, idea_status, pc, caller, flags, results,
                   outcome, success, paper, agent, proc, stdout_open, return_code,
                   nread, trace, runs, exit_code, outsideSpec>>

\* (mutant) after the kill the runner launches the agent again
WaitTimeout_Respawns ==
    /\ pc = "wait"
    /\ waited = TimeoutTicks
    /\ proc' = [proc EXCEPT ![agent] = "killed"]
    /\ Log(<<"kill", agent>>)
    /\ pc' = "spawn"
    /\ UNCHANGED <<state, disk, marker, idea_status, caller, flags, results, outcome,
                   success, paper, agent, stdout_open, return_code, nread, elapsed,
                   waited, runs, exit_code, outsideSpec>>

\* process.wait(timeout) raises TimeoutExpired: process.kill()
WaitTimeout ==
    /\ pc = "wait"
    /\ waited = TimeoutTicks
    /\ proc' = [proc EXCEPT ![agent] = "killed"]
    /\ RunnerEnds("timeout", 0, << <<"kill", agent>> >>)
    /\ UNCHANGED return_code

\* ------------------------------------------------------- run_research
\* AfterPipeline that enters the paper writer whenever write_paper is set
AfterPipeline_PaperOnFailure ==
    /\ pc = "rp_returned"
    /\ caller = "run_research"
    /\ success' = PyBool(results.success)
    /\ IF flags.write_paper
       THEN pc' = "setup" /\ agent' = PW
       ELSE pc' = "finalize" /\ agent' = "none"
    /\ UNCHANGED <<state, disk, marker, idea_status, caller, flags, results, outcome,
                   paper, proc, stdout_open, return_code, nread, elapsed, waited,
                   trace, runs, exit_code, outsideSpec>>

\* run_research after run_pipeline returned: success = result['success'];
\* the paper writer is entered when write_paper and success
AfterPipeline ==
    /\ pc = "rp_returned"
    /\ caller = "run_research"
    /\ success' = PyBool(results.success)
    /\ IF flags.write_paper /\ results.success
       THEN pc' = "setup" /\ agent' = PW
       ELSE pc' = "finalize" /\ agent' = "none"
    /\ UNCHANGED <<state, disk, marker, idea_status, caller, flags, results, outcome,
                   paper, proc, stdout_open, return_code, nread, elapsed, waited,
                   trace, runs, exit_code, outsideSpec>>

\* PipelineErrorCaught without the finally block: the call ends unfinalized
PipelineErrorCaught_NoFinally ==
    /\ pc = "rp_raised"
    /\ caller = "run_research"
    /\ success' = "False"
    /\ pc' = "rr_returned"
    /\ UNCHANGED <<state, disk, marker, idea_status, caller, flags, results, outcome,
                   paper, procVars, trace, runs, exit_code, outsideSpec>>

\* run_research: `except Exception` around run_pipeline: success = False
PipelineErrorCaught ==
    /\ pc = "rp_raised"
    /\ caller = "run_research"
    /\ success' = "False"
    /\ pc' = "finalize"
    /\ UNCHANGED <<state, disk, marker, idea_status, caller, flags, results, outcome,
                   paper, procVars, trace, runs, exit_code, outsideSpec>>

\* what one call of commit_and_push does: it returns True (pushed) or False
\* (nothing to commit), or raises
PublishOutcomes == {"True", "False", "raised"}

\* the events of the publish step of _finalize_research: the exception of
\* commit_and_push is caught and reported
PublishEvents(how) ==
    << <<"commit_and_push", how>> >>
       \o (IF how = "raised" THEN << <<"print", "Failed to push to GitHub">> >>
           ELSE << >>)

\* (mutant) an exception of commit_and_push leaves _finalize_research
Finalize_PublishErrorEscapes ==
    /\ pc = "finalize"
    /\ \E how \in PublishOutcomes :
        IF flags.use_github /\ how = "raised"
        THEN /\ trace' = trace \o << <<"finalize">>, <<"commit_and_push", how>> >>
             /\ UNCHANGED idea_status
        ELSE /\ trace' = trace \o << <<"finalize">> >>
                              \o (IF flags.use_github THEN PublishEvents(how) ELSE << >>)
                              \o << <<"update_status", "completed">> >>
             /\ idea_status' = "completed"
    /\ pc' = "rr_returned"
    /\ UNCHANGED <<state, disk, marker, caller, flags, results, outcome, success,
                   paper, procVars, runs, exit_code, outsideSpec>>

\* _finalize_research: commit_and_push when GitHub is enabled (its exception
\* is caught), then update_status(idea_id, 'completed')
Finalize ==
    /\ pc = "finalize"
    /\ \E how \in PublishOutcomes :
        trace' = trace \o << <<"finalize">> >>
                       \o (IF flags.use_github THEN PublishEvents(how) ELSE << >>)
                       \o << <<"update_status", "completed">> >>
    /\ idea_status' = "completed"
    /\ pc' = "rr_returned"
    /\ UNCHANGED <<state, disk, marker, caller, flags, results, outcome, success,
                   paper, procVars, runs, exit_code, outsideSpec>>

\* ------------------------------------------------------- legacy mode
\* run_research with multi_agent=False: one agent, no orchestrator and no
\* Pipeline State; up to the try statement around the agent
CallRunResearchLegacy ==
    \E gh \in BOOLEAN :
        /\ BeginCall("legacy", [NoFlags EXCEPT !.use_github = gh])
        /\ idea_status' = "in_progress"
        /\ pc' = "lg_body"
        /\ UNCHANGED <<state, disk, marker>>

\* how the try block of the legacy run ends
LegacyEndings == {"ok", "nonzero", "timeout", "exception"}

\* the try block of the legacy run: return code 0 sets success = True; a
\* non-zero code and a timeout (the process is killed) set success = False;
\* `except Exception` sets success = False and re-raises
LegacyRuns ==
    /\ pc = "lg_body"
    /\ \E how \in LegacyEndings :
        /\ success' = PyBool(how = "ok")
        /\ pc' = IF how = "exception" THEN "lg_finally_raising" ELSE "lg_finally"
    /\ UNCHANGED <<state, disk, marker, idea_status, caller, flags, results, outcome,
                   paper, procVars, trace, runs, exit_code, outsideSpec>>

\* (mutant) the legacy run swallows the exception of its try block
LegacyFinalize_Swallows ==
    /\ pc \in {"lg_finally", "lg_finally_raising"}
    /\ \E how \in PublishOutcomes :
        trace' = trace \o << <<"finalize">> >>
                       \o (IF flags.use_github THEN PublishEvents(how) ELSE << >>)
                       \o << <<"update_status", "completed">> >>
    /\ idea_status' = "completed"
    /\ pc' = "rr_returned"
    /\ UNCHANGED <<state, disk, marker, caller, flags, results, outcome, success,
                   paper, procVars, runs, exit_code, outsideSpec>>

\* the finally block of the legacy run: commit_and_push when GitHub is enabled
\* (its exception is caught), update_status(idea_id, 'completed'); then
\* run_research returns, or the pending exception leaves run_research and
\* main calls sys.exit(1)
LegacyFinalize ==
    /\ pc \in {"lg_finally", "lg_finally_raising"}
    /\ \E how \in PublishOutcomes :
        trace' = trace \o << <<"finalize">> >>
                       \o (IF flags.use_github THEN PublishEvents(how) ELSE << >>)
                       \o << <<"update_status", "completed">> >>
    /\ idea_status' = "completed"
    /\ IF pc = "lg_finally_raising"
       THEN pc' = "exited" /\ exit_code' = 1
       ELSE pc' = "rr_returned" /\ UNCHANGED exit_code
    /\ UNCHANGED <<state, disk, marker, caller, flags, results, outcome, success,
                   paper, procVars, runs, outsideSpec>>

\* nothing of a call outlives it but the files and the idea's status
Forget ==
    /\ pc' = "idle"
    /\ state' = FreshState
    /\ caller' = "none"
    /\ flags' = NoFlags
    /\ results' = EmptyResults
    /\ outcome' = "none"
    /\ success' = "unset"
    /\ paper' = "none"
    /\ agent' = "none"
    /\ proc' = NoProc
    /\ stdout_open' = FALSE
    /\ return_code' = NoCode
    /\ nread' = 0
    /\ elapsed' = 0
    /\ waited' = 0
    /\ trace' = << >>
    /\ exit_code' = -1
    /\ UNCHANGED <<disk, marker, idea_status, runs, outsideSpec>>

\* main: run_research returned a result; main prints "SUCCESS!" and returns,
\* whatever result['success'] is, so the process exits with status 0
MainExits ==
    /\ pc = "rr_returned"
    /\ pc' = "exited"
    /\ exit_code' = 0
    /\ UNCHANGED <<state, disk, marker, idea_status, caller, flags, results, outcome,
                   success, paper, procVars, trace, runs, outsideSpec>>

\* run_research raises before its try block (the idea is not found:
\* ValueError); main catches it and calls sys.exit(1)
RunResearchRaises ==
    /\ pc = "idle"
    /\ runs < MaxRuns
    /\ runs' = runs + 1
    /\ caller' = "run_research"
    /\ pc' = "exited"
    /\ exit_code' = 1
    /\ UNCHANGED <<state, disk, marker, idea_status, flags, results, outcome,
                   success, paper, procVars, trace, outsideSpec>>

\* the call is over: the caller has the result (or the exception)
Return ==
    /\ \/ pc = "exited"
       \/ pc \in {"rp_returned", "rp_raised"} /\ caller \in DirectCallers
    /\ Forget

\* the orchestrator process is killed (or interrupted) in the middle of a call:
\* only the files survive
Crash ==
    /\ pc \notin {"idle", "rr_returned", "exited"}
    /\ ~(pc \in {"rp_returned", "rp_raised"} /\ caller \in DirectCallers)
    /\ Forget

Next ==
    \/ CallRunResearch
    \/ CallRunPipeline
    \/ CallResumePipeline
    \/ ResumeShortCircuit
    \/ RFSkip
    \/ RFStart
    \/ HRStart
    \/ HRAnswer
    \/ HRInputFails
    \/ EXPStart
    \/ MarkCompleted
    \/ Setup
    \/ SetupFails
    \/ Spawn
    \/ SpawnFails
    \/ WritePrompt
    \/ WriteFails
    \/ ReadLine
    \/ ReadBlocked
    \/ ReadEOF
    \/ ReadFails
    \/ AgentWritesMarker
    \/ WaitReturns
    \/ WaitTick
    \/ WaitTimeout
    \/ AfterPipeline
    \/ PipelineErrorCaught
    \/ Finalize
    \/ MainExits
    \/ RunResearchRaises
    \/ CallRunResearchLegacy
    \/ LegacyRuns
    \/ LegacyFinalize
    \/ Return
    \/ Crash

Spec == Init /\ [][Next]_vars

\* ================================================ runner input and output
\* One invocation of a runner, followed for what it passes to the agent
\* process and what it does with each line the agent prints, up to the
\* publish of the working directory.

\* the runners that stream an agent: the three stages and the legacy
\* single-agent run
LEGACY == "legacy"
IOAgents == Agents \cup {LEGACY}

\* names that os.environ may hold
EnvNames == {"PATH", "GITHUB_TOKEN", "OPENAI_API_KEY"}
\* security.SENSITIVE_ENV_VARS (two of its names)
SENSITIVE_ENV_VARS == {"GITHUB_TOKEN", "OPENAI_API_KEY"}
\* security.get_safe_env
get_safe_env(base_env) == {key \in base_env : key \notin SENSITIVE_ENV_VARS}

\* a text is a sequence of words; these words stand for: ordinary text, an
\* Anthropic key, a GitHub token, an echoed assignment of a secret variable
Words == {"loading", "sk-ant-api03-KEY", "ghp_TOKEN", "OPENAI_API_KEY=value"}
\* security.API_KEY_PATTERNS on one word
Redact(w) ==
    CASE w = "sk-ant-api03-KEY" -> "[REDACTED_ANTHROPIC_KEY]"
      [] w = "ghp_TOKEN" -> "[REDACTED_GITHUB_PAT]"
      [] w = "OPENAI_API_KEY=value" -> "OPENAI_API_KEY=[REDACTED]"
      [] OTHER -> w
\* security.sanitize_text
sanitize_text(text) == [i \in DOMAIN text |-> Redact(text[i])]

\* the lines an agent may print, the prompts a runner may generate
Lines == {<<"loading">>, <<"loading", "sk-ant-api03-KEY">>, <<"ghp_TOKEN">>,
          <<"OPENAI_API_KEY=value">>}

\* security.sanitize_log_file: the content of a file is a sequence of lines
sanitize_log_file(content) == [i \in DOMAIN content |-> sanitize_text(content[i])]
\* the globs of sanitize_logs_directory
log_patterns == {"log", "jsonl", "txt"}
\* (mutant) only *.log files are sanitized
sanitize_logs_directory_LogOnly(dir) ==
    [k \in LogKinds |-> IF k = "log" THEN sanitize_log_file(dir[k]) ELSE dir[k]]

\* security.sanitize_logs_directory
sanitize_logs_directory(dir) ==
    [k \in LogKinds |-> IF k \in log_patterns THEN sanitize_log_file(dir[k]) ELSE dir[k]]

\* the runners that pass each line through sanitize_text
Sanitizing == {RF, LEGACY}
\* the runners that also write a transcript file
WithTranscript == {RF, EXP}

InitIO ==
    /\ PipelineInit
    /\ io_pc = "setup"
    /\ io_agent \in IOAgents
    /\ environ \in SUBSET EnvNames
    /\ child_env = {}
    /\ emitted = << >>
    /\ echoed = << >>
    /\ logs = NoLogs
    /\ staged = NoLogs
    /\ io_cfg \in [provider_known : BOOLEAN, use_scribe : BOOLEAN]
    /\ RetryIdle
    /\ QueryIdle
    /\ DuoIdle
    /\ SaveIdle

\* the runner looks the provider up before Popen and raises when it is
\* unknown: run_resource_finder checks `provider not in CLI_COMMANDS` first of
\* all; the experiment runner and the legacy run raise KeyError at
\* CLI_COMMANDS[provider], after the prompt is saved, unless use_scribe builds
\* the command without a lookup; run_paper_writer falls back to 'claude -p'
RejectsProvider(a, cfg, at) ==
    /\ ~cfg.provider_known
    /\ \/ a = RF /\ at = "setup"
       \/ a \in {EXP, LEGACY} /\ at = "spawn" /\ ~cfg.use_scribe

\* the runner raises on the provider; no process has been spawned
IOProviderRejected ==
    /\ RejectsProvider(io_agent, io_cfg, io_pc)
    /\ io_pc' = "raised"
    /\ UNCHANGED <<outsideIO, io_agent, environ, child_env, emitted, echoed, logs, staged,
                   io_cfg>>

\* the runner generates the prompt and saves it under logs/
IOSavePrompt ==
    /\ io_pc = "setup"
    /\ ~RejectsProvider(io_agent, io_cfg, io_pc)
    /\ \E prompt \in Lines : logs' = [logs EXCEPT !["txt"] = <<prompt>>]
    /\ io_pc' = "spawn"
    /\ UNCHANGED <<outsideIO, io_agent, environ, child_env, emitted, echoed, staged,
                   io_cfg>>

\* env = os.environ.copy(); env['PYTHONUNBUFFERED'] = '1'; Popen(..., env=env)
IOSpawn ==
    /\ io_pc = "spawn"
    /\ ~RejectsProvider(io_agent, io_cfg, io_pc)
    /\ child_env' = environ \cup {"PYTHONUNBUFFERED"}
    /\ io_pc' = "reading"
    /\ UNCHANGED <<outsideIO, io_agent, environ, emitted, echoed, logs, staged, io_cfg>>

\* one turn of `for line in iter(process.stdout.readline, '')`
IOReadLine ==
    /\ io_pc = "reading"
    /\ Len(emitted) < MaxOutput
    /\ \E line \in Lines :
        LET out == IF io_agent \in Sanitizing THEN sanitize_text(line) ELSE line
        IN  /\ emitted' = Append(emitted, line)
            /\ echoed' = Append(echoed, out)
            /\ logs' = [logs EXCEPT !["log"] = Append(@, out),
                                    !["jsonl"] = IF io_agent \in WithTranscript
                                                 THEN Append(@, out) ELSE @]
    /\ UNCHANGED <<outsideIO, io_pc, io_agent, environ, child_env, staged, io_cfg>>

\* the stream ends and the log files are closed
IOEndOfStream ==
    /\ io_pc = "reading"
    /\ io_pc' = "closed"
    /\ UNCHANGED <<outsideIO, io_agent, environ, child_env, emitted, echoed, logs, staged,
                   io_cfg>>

\* the stage ends part-way: readline raises, or process.wait(timeout) raises
\* TimeoutExpired and the process is killed; leaving the `with` block closes
\* the log files
IOStageFails ==
    /\ io_pc = "reading"
    /\ io_pc' = "failed"
    /\ UNCHANGED <<outsideIO, io_agent, environ, child_env, emitted, echoed, logs, staged,
                   io_cfg>>

\* GitHubManager.commit_and_push: sanitize_logs_directory, then `git add -A`
IOCommit ==
    /\ io_pc \in {"closed", "failed"}
    /\ logs' = sanitize_logs_directory(logs)
    /\ staged' = logs'
    /\ io_pc' = "published"
    /\ UNCHANGED <<outsideIO, io_agent, environ, child_env, emitted, echoed, io_cfg>>

NextIO ==
    \/ IOProviderRejected
    \/ IOSavePrompt
    \/ IOSpawn
    \/ IOReadLine
    \/ IOEndOfStream
    \/ IOStageFails
    \/ IOCommit

SpecIO == InitIO /\ [][NextIO]_vars

\* ================================================== retry_with_backoff
\* One call of a function decorated with retry_with_backoff, or passed to
\* call_with_retry (which decorates an inner function and calls it). Delays
\* are whole seconds.

\* exception classes the wrapped function may raise, with their base classes
Kinds == {"ConnectionError", "FileNotFoundError", "ValueError"}
Bases(kind) ==
    CASE kind = "ConnectionError" -> {"ConnectionError", "OSError", "Exception"}
      [] kind = "FileNotFoundError" -> {"FileNotFoundError", "OSError", "Exception"}
      [] OTHER -> {kind, "Exception"}
\* retry.RETRYABLE_EXCEPTIONS, the default of retryable_exceptions
RETRYABLE_EXCEPTIONS == {"ConnectionError", "TimeoutError", "OSError"}
\* `except retryable_exceptions` catches the exception
Retryable(kind) == Bases(kind) \cap RETRYABLE_EXCEPTIONS # {}

\* the arguments of retry_with_backoff that are tried
BaseDelays == {1, 3}
Factors == {1, 2}
MaxDelays == {2, 5}
Forms == {"decorator", "call_with_retry"}
\* values the wrapped function may return
Values == {1, 2}

Min(a, b) == IF a <= b THEN a ELSE b

RECURSIVE Pow(_, _)
Pow(f, k) == IF k = 0 THEN 1 ELSE f * Pow(f, k - 1)

NoResult == [how |-> "none", kind |-> "none", by |-> 0, value |-> 0]

InitRetry ==
    /\ PipelineInit
    /\ IOIdle
    /\ QueryIdle
    /\ DuoIdle
    /\ SaveIdle
    /\ r_pc = "attempt"
    /\ r_cfg \in [max_retries : 0..MaxRetries, base_delay : BaseDelays,
                  backoff_factor : Factors, max_delay : MaxDelays, form : Forms]
    /\ attempt = 1
    /\ delay = r_cfg.base_delay
    /\ history = << >>
    /\ sleeps = << >>
    /\ r_result = NoResult

\* (mutant) the last attempt is taken to be attempt max_retries
Exhausted_OffByOne(a, n) == a = n

\* `if attempt == max_retries + 1`
Exhausted(a, n) == a = n + 1

\* (mutant) the wrapper sleeps once more before it returns the value
RetryReturns_SleepsAfter ==
    /\ r_pc = "attempt"
    /\ \E v \in Values :
        /\ history' = Append(history, [out |-> "ok", value |-> v])
        /\ r_result' = [how |-> "returned", kind |-> "none",
                        by |-> Len(history) + 1, value |-> v]
    /\ sleeps' = Append(sleeps, delay)
    /\ r_pc' = "done"
    /\ UNCHANGED <<outsideRetry, r_cfg, attempt, delay>>

\* `return func(*args, **kwargs)`: the attempt succeeds
RetryReturns ==
    /\ r_pc = "attempt"
    /\ \E v \in Values :
        /\ history' = Append(history, [out |-> "ok", value |-> v])
        /\ r_result' = [how |-> "returned", kind |-> "none",
                        by |-> Len(history) + 1, value |-> v]
    /\ r_pc' = "done"
    /\ UNCHANGED <<outsideRetry, r_cfg, attempt, delay, sleeps>>

\* (mutant) every exception is caught and retried
RetryRaises_RetriesAll ==
    /\ r_pc = "attempt"
    /\ \E kind \in Kinds :
        /\ history' = Append(history, [out |-> kind, value |-> 0])
        /\ IF ~Exhausted(attempt, r_cfg.max_retries)
           THEN /\ r_pc' = "sleep"
                /\ UNCHANGED r_result
           ELSE /\ r_pc' = "done"
                /\ r_result' = [how |-> "raised", kind |-> kind,
                                by |-> Len(history) + 1, value |-> 0]
    /\ UNCHANGED <<outsideRetry, r_cfg, attempt, delay, sleeps>>

\* the attempt raises: an exception `except retryable_exceptions` does not
\* catch propagates; a caught one is re-raised by the bare `raise` on the last
\* attempt, and leads to the sleep otherwise
RetryRaises ==
    /\ r_pc = "attempt"
    /\ \E kind \in Kinds :
        /\ history' = Append(history, [out |-> kind, value |-> 0])
        /\ IF Retryable(kind) /\ ~Exhausted(attempt, r_cfg.max_retries)
           THEN /\ r_pc' = "sleep"
                /\ UNCHANGED r_result
           ELSE /\ r_pc' = "done"
                /\ r_result' = [how |-> "raised", kind |-> kind,
                                by |-> Len(history) + 1, value |-> 0]
    /\ UNCHANGED <<outsideRetry, r_cfg, attempt, delay, sleeps>>

\* time.sleep(delay); delay = min(delay * backoff_factor, max_delay); next turn
RetrySleep ==
    /\ r_pc = "sleep"
    /\ sleeps' = Append(sleeps, delay)
    /\ delay' = Min(delay * r_cfg.backoff_factor, r_cfg.max_delay)
    /\ attempt' = attempt + 1
    /\ r_pc' = "attempt"
    /\ UNCHANGED <<outsideRetry, r_cfg, history, r_result>>

NextRetry ==
    \/ RetryReturns
    \/ RetryRaises
    \/ RetrySleep

SpecRetry == InitRetry /\ [][NextRetry]_vars

\* ======================================================= properties

\* the experiment-runner stage has not been started in the running call
NoExperimentStarted ==
    /\ Count(<<"start_stage", EXP>>) = 0
    /\ Count(<<"spawn", EXP>>) = 0
    /\ proc[EXP] = "none"

\* the resource-finder stage of the running call ended without success
RFFailedInCall ==
    /\ Count(<<"complete_stage", RF>>) = 1
    /\ state.stages[RF].status = "failed"

C2_TimeoutKill ==
    \A a \in Agents :
        (agent = a /\ proc[a] = "running") => elapsed <= TimeoutTicks + KillSlack

\* C3: at most one stage record is in_progress, and it is the one current_stage
\* names, in every persisted Pipeline State.
C3_SingleInProgress ==
    \A s \in Stages :
        disk.content.stages[s].status = "in_progress" => disk.content.current_stage = s

\* calls of commit_and_push made by the running call
Publishes ==
    Count(<<"commit_and_push", "True">>) + Count(<<"commit_and_push", "False">>)
        + Count(<<"commit_and_push", "raised">>)

\* C4: in multi-agent run_research finalization runs at most once at any time
\* and exactly once by the time the call returns, on every path; it leaves the
\* idea's status completed and, with GitHub enabled, has made one publish attempt.
C4_FinalizationAlwaysRuns ==
    /\ Count(<<"finalize">>) <= 1
    /\ pc = "rr_returned" =>
          /\ Count(<<"finalize">>) = 1
          /\ Count(<<"update_status", "completed">>) = 1
          /\ idea_status = "completed"
          /\ Publishes = (IF flags.use_github THEN 1 ELSE 0)

\* C4 witness: a stage raised, run_research finalized and published all the same
C4_Witness ==
    /\ pc = "rr_returned"
    /\ outcome = "raised"
    /\ flags.use_github
    /\ Publishes = 1

\* the running call was made without skip and without pause
PlainCall ==
    /\ ~flags.skip_resource_finder
    /\ ~flags.pause_after_resources

\* the result of a fully successful pipeline
FullSuccess ==
    /\ outcome = "results"
    /\ results.success
    /\ disk.content.completed
    /\ \A s \in {RF, EXP} :
         /\ disk.content.stages[s].status = "completed"
         /\ disk.content.stages[s].success = "True"

C6_PipelineCompletion ==
    [][ /\ (pc' = "rp_returned" /\ outcome' = "results") =>
              LET exp_ok == results'.stages[EXP].present /\ results'.stages[EXP].success
              IN  /\ results'.success <=> exp_ok
                  /\ Count(<<"mark_completed">>)' = (IF exp_ok THEN 1 ELSE 0)
        /\ (~disk.content.completed /\ disk'.content.completed) =>
              is_stage_completed(disk.content, EXP)
      ]_vars

\* C6 witness: the flag has been set after a successful experiment stage
C6_Witness ==
    /\ pc = "rp_returned"
    /\ Count(<<"mark_completed">>) = 1
    /\ disk.content.completed
    /\ is_stage_completed(disk.content, EXP)

\* the experiment-runner process of the running call exited non-zero or was killed
ExperimentProcessFailed ==
    \/ return_code[EXP] \notin {-1, 0}
    \/ proc[EXP] = "killed"

\* C7: when the experiment-runner process exits non-zero or is killed on timeout,
\* nothing is raised: the stage is recorded failed, run_pipeline returns
\* success=False with the experiment_runner detail, mark_completed is not called
\* and run_research still finalizes.
C7_ExperimentFailureIsAValue ==
    ExperimentProcessFailed =>
        /\ outcome = "results"
        /\ ~results.success
        /\ results.stages[EXP].present /\ ~results.stages[EXP].success
        /\ disk.content.stages[EXP].status = "failed"
        /\ disk.content.stages[EXP].success = "False"
        /\ Count(<<"mark_completed">>) = 0
        /\ pc \in {"rp_returned", "finalize", "rr_returned", "exited"}
        /\ pc = "rr_returned" => Count(<<"finalize">>) = 1 /\ success = "False"

\* C7 witness: the experiment runner was killed on timeout, the call finalized
C7_Witness ==
    /\ pc = "rr_returned"
    /\ proc[EXP] = "killed"
    /\ results.stages[EXP].detail = "timeout"
    /\ Count(<<"finalize">>) = 1

\* the runner of agent a has ended on an exception raised after Popen (writing
\* the prompt or reading output): its process was neither waited for nor killed
IOFailedAfterSpawn(a) ==
    /\ Count(<<"spawn", a>>) = 1
    /\ proc[a] = "running"
    /\ agent # a

Touched(s) ==
    Count(<<"start_stage", s>>) + Count(<<"complete_stage", s>>) > 0

C10_PaperWriterBestEffort ==
    /\ (agent = PW \/ proc[PW] # "none" \/ paper # "none") =>
          /\ caller = "run_research"
          /\ flags.write_paper
          /\ results.success
    /\ paper \in {"failed", "timeout"} =>
          /\ success = "True"
          /\ pc \in {"finalize", "rr_returned", "exited"}

\* C10 witness: the paper writer exited non-zero and run_research returned success
C10_Witness ==
    /\ pc = "rr_returned"
    /\ return_code[PW] = 1
    /\ paper = "failed"
    /\ success = "True"

\* ------------------------------------------------------------------ C11
\* run_research is past the paper-writer step and the step raised: either
\* inside run_paper_writer's try block (paper_result carries the error) or
\* before it (there is no paper_result)
PaperWriterRaised ==
    /\ caller = "run_research"
    /\ pc \in {"finalize", "rr_returned", "exited"}
    /\ flags.write_paper
    /\ results.success
    /\ paper \in {"error", "none"}

\* C11: wherever the paper-writer step raises, from entering run_paper_writer
\* until it returns, the success that run_research returns stays True.
C11_PaperWriterExceptionHarmless ==
    PaperWriterRaised => success = "True"

\* ------------------------------------------------------------------ C12
\* the operator of the running call answered something other than yes / y
ReviewDeclined ==
    /\ results.stages[HR].present
    /\ ~results.stages[HR].success

\* C12: with pause_after_resources, after the resource-finder stage succeeded
\* or was skipped, an answer other than yes / y records human_review as failed,
\* makes run_pipeline return success=False, and the experiment-runner stage is
\* never started: no start_stage, no experiment process, and its persisted
\* record is left as it was (absent when it was absent).
C12_DeclinedReview ==
    [][ /\ ReviewDeclined' =>
              /\ flags'.pause_after_resources
              /\ results'.stages[RF].present /\ results'.stages[RF].success
              /\ disk'.content.stages[HR].status = "failed"
              /\ disk'.content.stages[HR].success = "False"
              /\ outcome' = "results"
              /\ ~results'.success
              /\ pc' \in {"rp_returned", "finalize", "rr_returned", "exited"}
              /\ NoExperimentStarted'
        /\ (pc = "hr_input" \/ ReviewDeclined) =>
              disk'.content.stages[EXP] = disk.content.stages[EXP]
      ]_vars

\* C12 witness: the resource finder ran and succeeded, the operator answered
\* no, run_pipeline returned and there is no experiment_runner record
C12_Witness ==
    /\ pc = "rp_returned"
    /\ ReviewDeclined
    /\ results.stages[RF].detail = "run"
    /\ disk.content.stages[HR].status = "failed"
    /\ disk.content.stages[EXP].status = "absent"
    /\ ~results.success

\* ------------------------------------------------------------------ C13
\* the running call entered run_pipeline with skip_resource_finder set and is
\* past the skip
SkipDone ==
    /\ flags.skip_resource_finder
    /\ pc \notin {"idle", "rp_stage1", "resume_done"}
    /\ outcome # "shortcircuit"

\* C13: run_pipeline with skip_resource_finder=True never starts the
\* resource-finder stage and never spawns its process, and whatever record the
\* stage had before (none, in_progress, failed, completed) the skip leaves it
\* completed / success true with outputs {skipped: true}, in memory and on
\* disk; a record that did not exist is created by complete_stage.
C13_SkipCompletesStage ==
    /\ flags.skip_resource_finder =>
          /\ Count(<<"start_stage", RF>>) = 0
          /\ Count(<<"spawn", RF>>) = 0
          /\ proc[RF] = "none"
    /\ SkipDone =>
          /\ Count(<<"complete_stage", RF>>) = 1
          /\ is_stage_completed(state, RF)
          /\ is_stage_completed(disk.content, RF)
          /\ disk.content.stages[RF].outputs = "skipped"
          /\ disk.content.stages[RF].completed_at

\* C13 witness: the skip completed a stage that was never started (the record
\* has no started_at) and the call went on to the experiment runner
C13_Witness ==
    /\ SkipDone
    /\ ~disk.content.stages[RF].started_at
    /\ disk.content.stages[RF].status = "completed"
    /\ Count(<<"start_stage", EXP>>) = 1

\* another case of C13: the skip overwrote the record a crashed or failed
\* resource-finder run had left
SkipOverEarlierRecord ==
    /\ SkipDone
    /\ disk.content.stages[RF].started_at
    /\ disk.content.stages[RF].outputs = "skipped"

\* ------------------------------------------------------------------ C14
\* both tracked stages are completed with success in Pipeline State st
BothStagesDone(st) ==
    /\ is_stage_completed(st, RF)
    /\ is_stage_completed(st, EXP)

\* C14: resume_pipeline on a Pipeline State where resource_finder and
\* experiment_runner are both completed with success returns at once with
\* success=True and resumed=False: no stage is started or completed, no agent
\* process is spawned, and the state file is left as it was.
C14_ResumeShortCircuit ==
    [][ /\ (pc = "idle" /\ caller' = "resume" /\ disk.exists
               /\ BothStagesDone(disk.content)) =>
              /\ pc' = "resume_done"
              /\ disk' = disk
              /\ state' = disk.content
        /\ pc = "resume_done" =>
              /\ disk' = disk
              /\ trace' = << >>
              /\ proc' = NoProc
              /\ \/ pc' = "idle"
                 \/ /\ pc' = "rp_returned"
                    /\ outcome' = "shortcircuit"
                    /\ results'.success
                    /\ state' = state
      ]_vars

\* C14 witness: resume_pipeline returned through the short-circuit
C14_Witness ==
    /\ caller = "resume"
    /\ pc = "rp_returned"
    /\ outcome = "shortcircuit"
    /\ results.success
    /\ BothStagesDone(disk.content)
    /\ trace = << >>

\* ------------------------------------------------------------------ C15
\* a resume_pipeline call that re-entered run_pipeline has ended
ResumedRunEnded ==
    /\ caller = "resume"
    /\ pc \in {"rp_returned", "rp_raised"}
    /\ outcome # "shortcircuit"

\* the running call got past the resource-finder stage and the human review
PastReview ==
    /\ results.stages[RF].present /\ results.stages[RF].success
    /\ flags.pause_after_resources =>
          results.stages[HR].present /\ results.stages[HR].success
    /\ pc \notin {"idle", "rp_stage1", "rp_stage2", "hr_input", "rp_stage3",
                 "resume_done"}

\* C15 as stated: a resume that does not short-circuit always starts the
\* experiment-runner stage again when that stage was not successful before.
\* (A stage the call did not start keeps its earlier record on disk.)
C15_ResumeAlwaysRerunsExperiment ==
    (ResumedRunEnded /\ ~is_stage_completed(disk.content, EXP)) =>
        Count(<<"start_stage", EXP>>) = 1

\* C15 (amended): resume_pipeline passes skip_resource_finder =
\* is_stage_completed('resource_finder') and short-circuits only when both
\* stages are done; the resource-finder stage is started again exactly when it
\* was not completed successfully before (its process is spawned only then),
\* and is completed as skipped otherwise; the experiment-runner stage is never
\* skipped: once the call is past the resource finder and the review it has
\* been started again, and no success is returned without its process.
C15_ResumeSemantics ==
    [][ /\ (pc = "idle" /\ caller' = "resume") =>
              LET st == LoadState(disk)
              IN  /\ flags'.skip_resource_finder = is_stage_completed(st, RF)
                  /\ state' = st
                  /\ pc' = IF BothStagesDone(st) THEN "resume_done" ELSE "rp_stage1"
        /\ (caller' = "resume" /\ pc' \notin {"idle", "rp_stage1", "resume_done"}
               /\ outcome' # "shortcircuit") =>
              /\ flags'.skip_resource_finder =>
                    /\ Count(<<"start_stage", RF>>)' = 0
                    /\ Count(<<"spawn", RF>>)' = 0
                    /\ results'.stages[RF].detail = "skipped"
              /\ ~flags'.skip_resource_finder =>
                    /\ Count(<<"start_stage", RF>>)' = 1
                    /\ results'.stages[RF].detail # "skipped"
              /\ PastReview' => Count(<<"start_stage", EXP>>)' = 1
              /\ Count(<<"complete_stage", EXP>>)' <= Count(<<"start_stage", EXP>>)'
              /\ (outcome' = "results" /\ results'.success) =>
                    Count(<<"spawn", EXP>>)' = 1
      ]_vars

\* C15 witness: a resumed run skipped the finished resource finder and ran the
\* experiment runner again
C15_Witness ==
    /\ ResumedRunEnded
    /\ flags.skip_resource_finder
    /\ Count(<<"spawn", RF>>) = 0
    /\ Count(<<"spawn", EXP>>) = 1
    /\ results.stages[EXP].present

\* another case of C15: a resumed run spawned the resource finder again
ResumeRerunsResourceFinder ==
    /\ ResumedRunEnded
    /\ ~flags.skip_resource_finder
    /\ Count(<<"spawn", RF>>) = 1

\* ------------------------------------------------------------------ C16
\* C16: the command-line entry point exits with status 0 when the result of
\* run_research has success=True and with status 1 in every other case (a
\* result with success=False, or a raised error).
C16_ExitCodeReflectsSuccess ==
    pc = "exited" =>
        /\ exit_code \in {0, 1}
        /\ exit_code = 0 <=> success = "True"

\* ------------------------------------------------------------------ C17
\* a line that sanitize_text leaves as it is
Redacted(line) == sanitize_text(line) = line

\* every line of a sequence of lines is redacted
AllRedacted(content) == \A i \in DOMAIN content : Redacted(content[i])

\* C17: in every runner (resource finder, experiment runner, paper writer,
\* legacy run) every line received from the agent has gone through
\* sanitize_text before it is echoed or written to the log or the transcript:
\* no unredacted line is in the echo, the log file or the transcript file.
C17_StreamedOutputRedacted ==
    /\ AllRedacted(echoed)
    /\ AllRedacted(logs["log"])
    /\ AllRedacted(logs["jsonl"])

C19_SanitizedEnvironment ==
    io_pc \notin {"setup", "spawn"} =>
        /\ child_env \cap SENSITIVE_ENV_VARS = {}
        /\ child_env \subseteq get_safe_env(environ) \cup {"PYTHONUNBUFFERED"}

\* ------------------------------------------------------------------ C20
\* an orchestrator, and with it a PipelineState, has been constructed by the
\* running call
Constructed ==
    /\ pc # "idle"
    /\ exit_code # 1
    /\ caller # "legacy"

\* C20: once start_stage, complete_stage or mark_completed has returned (and
\* at every other point of a call) the state file holds the in-memory Pipeline
\* State, so that a new PipelineState on the same working directory loads
\* exactly that state; in a fresh directory the constructed state is empty: no
\* stages, current_stage None, completed False, and it is on disk at once.
C20_PersistenceRoundTrip ==
    [][ /\ Constructed' =>
              /\ disk'.exists
              /\ disk'.content = state'
              /\ LoadState(disk') = state'
        /\ (pc = "idle" /\ ~disk.exists /\ Constructed') =>
              /\ \A s \in Stages : state'.stages[s].status = "absent"
              /\ state'.current_stage = "None"
              /\ ~state'.completed
      ]_vars

\* C20 witness: mark_completed has returned and the file holds the completed
\* state, with a stage record created by the skip and one with both timestamps
C20_Witness ==
    /\ Constructed
    /\ Count(<<"mark_completed">>) = 1
    /\ disk.content = state
    /\ state.completed
    /\ ~state.stages[RF].started_at
    /\ state.stages[EXP].started_at /\ state.stages[EXP].completed_at

\* ------------------------------------------------------------------ C29
\* the runner has spawned its agent process
IOSpawned == io_pc \in {"reading", "closed", "published"}

\* C29: in every stage and mode (resource finder, experiment runner with or
\* without scribe, paper writer, legacy run) an unknown provider raises before
\* any agent process is spawned: a spawned process means a known provider.
C29_UnknownProviderFailsFast ==
    IOSpawned => io_cfg.provider_known

\* ============================================ PipelineState queries
\* is_stage_completed applied to any state dictionary a state file may hold,
\* the ones the orchestrator never writes included.

\* the records a state file may hold for one stage
StageRecords ==
    {Absent} \cup
    { [status |-> st, started_at |-> TRUE, completed_at |-> st # "in_progress",
       success |-> ok, outputs |-> "empty"] :
        st \in {"in_progress", "completed", "failed"},
        ok \in {"None", "True", "False"} }

InitQuery ==
    /\ PipelineInit
    /\ IOIdle
    /\ RetryIdle
    /\ DuoIdle
    /\ SaveIdle
    /\ fn_in \in [created_at : {"timestamp"}, stages : [Stages -> StageRecords],
                  current_stage : {"None"}, completed : {FALSE},
                  completed_at : {"missing"}]
    /\ fn_out = {}

\* one call of is_stage_completed(name); the answer is kept
QueryStage ==
    /\ \E name \in Stages :
        /\ \A ans \in BOOLEAN : <<name, ans>> \notin fn_out
        /\ fn_out' = fn_out \cup {<<name, is_stage_completed(fn_in, name)>>}
    /\ UNCHANGED <<outsideQuery, fn_in>>

NextQuery == QueryStage

SpecQuery == InitQuery /\ [][NextQuery]_vars

\* ===================================== two orchestrators, one directory
\* Two ResearchPipelineOrchestrator instances (two processes) constructed over
\* the same working directory, each running the stages of run_pipeline. There
\* is no lock; every write of the state file is taken as one step, which
\* leaves out only the torn files that overlapping writes can add.
Instances == {1, 2}

InitDuo ==
    /\ PipelineInit
    /\ IOIdle
    /\ RetryIdle
    /\ QueryIdle
    /\ SaveIdle
    /\ duo_pc = [i \in Instances |-> "new"]
    /\ duo_mem = [i \in Instances |-> FreshState]
    /\ duo_disk = [exists |-> FALSE, content |-> FreshState]
    /\ duo_acked = [i \in Instances |-> {}]

\* (mutant) _save keeps the finished records of the file that the writer's
\* copy does not have
DuoSave_Merges(st) ==
    [exists |-> TRUE,
     content |-> [json_load(json_dump(st)) EXCEPT
                    !.stages = [s \in Stages |->
                        IF /\ duo_disk.exists
                           /\ duo_disk.content.stages[s].status \in {"completed", "failed"}
                           /\ st.stages[s].status \notin {"completed", "failed"}
                        THEN duo_disk.content.stages[s]
                        ELSE json_load(json_dump(st)).stages[s]]]]

\* PipelineState._save of one instance: open(state_file, 'w'); json.dump
DuoSave(st) == Save(st)

\* instance i mutates its own copy and saves it
DuoMutate(i, st, next) ==
    /\ duo_mem' = [duo_mem EXCEPT ![i] = st]
    /\ duo_disk' = DuoSave(st)
    /\ duo_pc' = [duo_pc EXCEPT ![i] = next]

\* PipelineState.__init__ of instance i: load the file, or create it
DuoConstruct(i) ==
    /\ duo_pc[i] = "new"
    /\ duo_mem' = [duo_mem EXCEPT ![i] = LoadState(duo_disk)]
    /\ duo_disk' = IF duo_disk.exists THEN duo_disk ELSE DuoSave(FreshState)
    /\ duo_pc' = [duo_pc EXCEPT ![i] = "stage1"]
    /\ UNCHANGED <<outsideDuo, duo_acked>>

\* run_pipeline of instance i: start_stage of the stage it is at
DuoStartStage(i) ==
    /\ duo_pc[i] \in {"stage1", "stage3"}
    /\ LET s == IF duo_pc[i] = "stage1" THEN RF ELSE EXP IN
       DuoMutate(i, start_stage(duo_mem[i], s),
                 IF s = RF THEN "in_stage1" ELSE "in_stage3")
    /\ UNCHANGED <<outsideDuo, duo_acked>>

\* run_pipeline of instance i: complete_stage of the stage it is in; a failed
\* stage ends the call
DuoCompleteStage(i) ==
    /\ duo_pc[i] \in {"in_stage1", "in_stage3"}
    /\ \E ok \in BOOLEAN :
        LET s == IF duo_pc[i] = "in_stage1" THEN RF ELSE EXP IN
        /\ DuoMutate(i, complete_stage(duo_mem[i], s, ok, "result"),
                     CASE ~ok -> "done"
                       [] ok /\ s = RF -> "stage3"
                       [] OTHER -> "mark")
        /\ duo_acked' = [duo_acked EXCEPT ![i] = @ \cup {s}]
    /\ UNCHANGED outsideDuo

\* run_pipeline of instance i: mark_completed
DuoMarkCompleted(i) ==
    /\ duo_pc[i] = "mark"
    /\ DuoMutate(i, mark_completed(duo_mem[i]), "done")
    /\ UNCHANGED <<outsideDuo, duo_acked>>

NextDuo ==
    \E i \in Instances :
        \/ DuoConstruct(i)
        \/ DuoStartStage(i)
        \/ DuoCompleteStage(i)
        \/ DuoMarkCompleted(i)

SpecDuo == InitDuo /\ [][NextDuo]_vars

\* ====================================== a kill during PipelineState._save
\* One PipelineState whose process may be killed at any instant. _save is
\* open(state_file, 'w'), which truncates the file, then json.dump into the
\* buffered file, then the close that flushes what is still buffered.

\* the stages mutated here
SaveStages == {RF, EXP}

\* the state a whole file with the JSON text of st is loaded as
Stored(st) == json_load(json_dump(st))

\* the mutations of PipelineState
Mutations(st) ==
    { start_stage(st, s) : s \in SaveStages }
        \cup { complete_stage(st, s, ok, "result") : s \in SaveStages, ok \in BOOLEAN }
        \cup { mark_completed(st) }

\* a PipelineState just constructed in a fresh directory
InitSave ==
    /\ PipelineInit
    /\ IOIdle
    /\ RetryIdle
    /\ QueryIdle
    /\ DuoIdle
    /\ sv_pc = "ready"
    /\ sv_mem = FreshState
    /\ sv_file = [kind |-> "whole", content |-> Stored(FreshState)]
    /\ sv_before = FreshState
    /\ sv_after = FreshState

\* start_stage, complete_stage or mark_completed up to its call of _save
SvMutate ==
    /\ sv_pc = "ready"
    /\ \E st \in Mutations(sv_mem) :
        /\ sv_mem' = st
        /\ sv_after' = st
    /\ sv_before' = sv_mem
    /\ sv_pc' = "opening"
    /\ UNCHANGED <<outsideSave, sv_file>>

\* _save: open(self.state_file, 'w') truncates the file
SvOpen ==
    /\ sv_pc = "opening"
    /\ sv_file' = [kind |-> "empty", content |-> FreshState]
    /\ sv_pc' = "dumping"
    /\ UNCHANGED <<outsideSave, sv_mem, sv_before, sv_after>>

\* _save: json.dump has filled the buffer and a first part of the text reaches the file
SvFlushPart ==
    /\ sv_pc = "dumping"
    /\ sv_file.kind = "empty"
    /\ sv_file' = [kind |-> "partial", content |-> FreshState]
    /\ UNCHANGED <<outsideSave, sv_pc, sv_mem, sv_before, sv_after>>

\* _save: the `with` block closes the file, the whole text is in it
SvClose ==
    /\ sv_pc = "dumping"
    /\ sv_file' = [kind |-> "whole", content |-> Stored(sv_mem)]
    /\ sv_before' = sv_mem
    /\ sv_pc' = "ready"
    /\ UNCHANGED <<outsideSave, sv_mem, sv_after>>

\* the process is killed: its memory and its buffers are gone, the file stays
SvKilled ==
    /\ sv_pc \in {"ready", "opening", "dumping"}
    /\ sv_pc' = "dead"
    /\ sv_mem' = FreshState
    /\ UNCHANGED <<outsideSave, sv_file, sv_before, sv_after>>

\* the next PipelineState.__init__ on the directory: json.load(f) of the
\* existing file; an empty or cut text raises json.JSONDecodeError
SvReload ==
    /\ sv_pc = "dead"
    /\ IF sv_file.kind = "whole"
       THEN /\ sv_mem' = sv_file.content
            /\ sv_before' = sv_file.content
            /\ sv_after' = sv_file.content
            /\ sv_pc' = "ready"
       ELSE /\ sv_pc' = "unloadable"
            /\ UNCHANGED <<sv_mem, sv_before, sv_after>>
    /\ UNCHANGED <<outsideSave, sv_file>>

NextSave ==
    \/ SvMutate
    \/ SvOpen
    \/ SvFlushPart
    \/ SvClose
    \/ SvKilled
    \/ SvReload

SpecSave == InitSave /\ [][NextSave]_vars

\* ------------------------------------------------------------------ C21
\* every invocation so far raised an exception of a retryable class
AllTransient ==
    \A i \in DOMAIN history : history[i].out # "ok" /\ Retryable(history[i].out)

\* C21: with max_retries = N >= 0 the wrapped function is never invoked more
\* than N+1 times, and when every attempt fails with a retryable exception the
\* wrapper ends after exactly N+1 invocations and N sleeps by raising the
\* exception of the last attempt.
C21_RetryBounds ==
    /\ Len(history) <= r_cfg.max_retries + 1
    /\ Len(sleeps) <= r_cfg.max_retries
    /\ (r_pc = "done" /\ AllTransient) =>
          /\ Len(history) = r_cfg.max_retries + 1
          /\ Len(sleeps) = r_cfg.max_retries
          /\ r_result.how = "raised"
          /\ r_result.by = Len(history)
          /\ r_result.kind = history[Len(history)].out

\* C21 witness: max_retries = 0, one failing attempt, no sleep, the exception raised
C21_Witness ==
    /\ r_pc = "done"
    /\ r_cfg.max_retries = 0
    /\ AllTransient
    /\ Len(history) = 1
    /\ sleeps = << >>
    /\ r_result.how = "raised"

\* another case of C21: every one of MaxRetries retries was used
RetriesExhausted ==
    /\ r_pc = "done"
    /\ r_cfg.max_retries = MaxRetries
    /\ AllTransient
    /\ Len(sleeps) = MaxRetries

\* ------------------------------------------------------------------ C22
\* C22: for every base_delay d, backoff_factor f and max_delay m the k-th
\* sleep lasts min(d * f^(k-1), m).
C22_BackoffGrowth ==
    \A k \in DOMAIN sleeps :
        sleeps[k] = Min(r_cfg.base_delay * Pow(r_cfg.backoff_factor, k - 1),
                        r_cfg.max_delay)

\* ------------------------------------------------------------------ C23
\* C23: an attempt that raises an exception `except retryable_exceptions` does
\* not catch is the last one: the exception reaches the caller as raised by
\* that attempt, the function is not invoked again and no sleep follows; when
\* it is the first attempt the function was invoked exactly once.
C23_NoRetryOnOtherErrors ==
    \A i \in DOMAIN history :
        (history[i].out # "ok" /\ ~Retryable(history[i].out)) =>
            /\ i = Len(history)
            /\ r_pc = "done"
            /\ r_result = [how |-> "raised", kind |-> history[i].out,
                           by |-> i, value |-> 0]
            /\ Len(sleeps) = i - 1

\* C23 witness: a ValueError after one transient failure and one sleep
C23_Witness ==
    /\ r_pc = "done"
    /\ Len(history) = 2
    /\ history[1].out = "ConnectionError"
    /\ history[2].out = "ValueError"
    /\ Len(sleeps) = 1
    /\ r_result.kind = "ValueError"

\* ------------------------------------------------------------------ C24
\* C24: in both forms, an attempt that succeeds is the last one: the wrapper
\* returns its value after j earlier transient failures, j <= max_retries,
\* with j+1 invocations and j sleeps, none of them after the success.
C24_SuccessStopsRetrying ==
    \A i \in DOMAIN history :
        history[i].out = "ok" =>
            /\ i = Len(history)
            /\ i <= r_cfg.max_retries + 1
            /\ r_pc = "done"
            /\ r_result = [how |-> "returned", kind |-> "none",
                           by |-> i, value |-> history[i].value]
            /\ Len(sleeps) = i - 1
            /\ \A j \in 1..(i - 1) : Retryable(history[j].out)

\* C24 witness: call_with_retry returned the value of the third attempt
C24_Witness ==
    /\ r_pc = "done"
    /\ r_cfg.form = "call_with_retry"
    /\ Len(history) = 3
    /\ history[3].out = "ok"
    /\ r_result.how = "returned"
    /\ r_result.value = history[3].value
    /\ Len(sleeps) = 2

\* ------------------------------------------------------------------ C25
\* C25: is_stage_completed(name) is true exactly when the stage has a record
\* with status completed and stored success true; a failed or in_progress
\* record, or no record, gives false.
C25_StageCompletedQuery ==
    \A q \in fn_out :
        LET rec == fn_in.stages[q[1]] IN
        /\ q[2] <=> (rec.status = "completed" /\ rec.success = "True")
        /\ rec.status \in {"absent", "in_progress", "failed"} => ~q[2]

\* C25 witness: the three answers of one state file: true for a completed
\* stage that succeeded, false for a failed one and for a missing record
C25_Witness ==
    /\ fn_in.stages[RF].status = "completed"
    /\ fn_in.stages[RF].success = "True"
    /\ fn_in.stages[HR].status = "failed"
    /\ fn_in.stages[EXP] = Absent
    /\ fn_out = {<<RF, TRUE>>, <<HR, FALSE>>, <<EXP, FALSE>>}

\* ------------------------------------------------------------------ C26
\* status and stored success of one stage record agree
Consistent(rec) ==
    /\ rec.status = "completed" => rec.success = "True"
    /\ rec.status = "failed" => rec.success = "False"
    /\ rec.status = "in_progress" => rec.success = "None"
    /\ rec.status = "absent" => rec = Absent

Terminal(rec) == rec.status \in {"completed", "failed"}

\* C26: in memory and in the state file, a stage record is completed only with
\* success true, failed only with success false, in_progress only with success
\* unset; and a record becomes completed or failed only in a step that calls
\* complete_stage for that stage: start_stage and mark_completed never do it,
\* and loading only brings back a record the file already held.
C26_StatusSuccessConsistency ==
    [][\A s \in Stages :
          /\ Consistent(state'.stages[s])
          /\ disk'.exists => Consistent(disk'.content.stages[s])
          /\ (disk'.exists /\ Terminal(disk'.content.stages[s])
                /\ disk'.content.stages[s] # LoadState(disk).stages[s])
             => Count(<<"complete_stage", s>>)' = Count(<<"complete_stage", s>>) + 1
          /\ (Terminal(state'.stages[s]) /\ state'.stages[s] # state.stages[s])
             => \/ Count(<<"complete_stage", s>>)' = Count(<<"complete_stage", s>>) + 1
                \/ state'.stages[s] = LoadState(disk).stages[s]
      ]_vars

\* C26 witness: the resource finder is recorded completed with success true
\* and the experiment runner failed with success false, in memory and on disk
C26_Witness ==
    /\ state.stages[RF].status = "completed"
    /\ state.stages[RF].success = "True"
    /\ state.stages[EXP].status = "failed"
    /\ state.stages[EXP].success = "False"
    /\ disk.exists
    /\ disk.content = state
    /\ Count(<<"complete_stage", EXP>>) = 1

\* ------------------------------------------------------------------ C27
\* commit_and_push raised in the finalization of the running call
PublishRaised == Count(<<"commit_and_push", "raised">>) = 1

\* C27: when commit_and_push raises during finalization the error is caught
\* and reported, the idea's status is still set to completed, run_research
\* returns, and the success value it returns is the one it had when
\* finalization began.
C27_PublishFailureContained ==
    [][PublishRaised' =>
          /\ pc' \in {"rr_returned", "exited"}
          /\ Count(<<"print", "Failed to push to GitHub">>)' = 1
          /\ Count(<<"update_status", "completed">>)' = 1
          /\ idea_status' = "completed"
          /\ success' = success
          /\ success' \in {"True", "False"}
      ]_vars

\* C27 witness: a successful pipeline whose publish raised: run_research
\* returned success true and the idea is completed
C27_Witness ==
    /\ pc = "rr_returned"
    /\ PublishRaised
    /\ success = "True"
    /\ results.success
    /\ idea_status = "completed"

\* another case of C27: the publish raised after a failed pipeline
PublishRaisedAfterFailure ==
    /\ pc = "rr_returned"
    /\ PublishRaised
    /\ success = "False"

\* ------------------------------------------------------------------ C28
\* the running call is over, or past its pipeline
PipelineOver == pc \in {"rp_returned", "rp_raised", "finalize", "rr_returned", "exited"}

\* C28: within one call each agent stage launches at most one process: an
\* agent that failed or was killed on timeout is never launched again by its
\* runner or by the orchestrator.
C28_NoAgentRetry ==
    \A a \in Agents :
        /\ Count(<<"spawn", a>>) <= 1
        /\ Count(<<"kill", a>>) <= Count(<<"spawn", a>>)
        /\ (proc[a] \in {"killed", "exited"} /\ agent = a) => pc # "spawn"

\* C28 witness: the resource finder timed out and was killed, the call is
\* over, and the agent was launched once
C28_Witness ==
    /\ PipelineOver
    /\ Count(<<"kill", RF>>) = 1
    /\ Count(<<"spawn", RF>>) = 1
    /\ ~results.success

\* another case of C28: the experiment runner exited with a failure code and
\* was launched once
FailedExperimentNotRelaunched ==
    /\ PipelineOver
    /\ proc[EXP] = "exited"
    /\ return_code[EXP] # 0
    /\ Count(<<"spawn", EXP>>) = 1

\* ------------------------------------------------------------------ C30
\* instance i took a step that wrote the state file
DuoWrote(i) ==
    /\ duo_pc'[i] # duo_pc[i]
    /\ duo_pc[i] # "new" \/ ~duo_disk.exists

\* a record that instance i saved as finished is not finished in the file
LostUpdate(i, s) ==
    /\ s \in duo_acked[i]
    /\ duo_disk.content.stages[s].status \notin {"completed", "failed"}

\* C30: with two instances on one working directory, every write of the state
\* file replaces the whole file by the writer's own in-memory copy, and the
\* writer's copy never takes in what the other instance wrote; so (witness) a
\* record one instance saved can be lost or reverted by the other's write.
C30_LastWriteWins ==
    [][\A i \in Instances :
          /\ DuoWrote(i) => /\ duo_disk'.exists
                            /\ duo_disk'.content = duo_mem'[i]
                            /\ \A j \in Instances \ {i} : duo_mem'[j] = duo_mem[j]
          /\ (duo_pc[i] # "new" /\ duo_pc'[i] = duo_pc[i]) => duo_mem'[i] = duo_mem[i]
      ]_vars

\* C30 witness: instance 1 saved the resource finder as completed, and after a
\* later write of instance 2 the file holds that stage as in_progress
C30_Witness ==
    /\ LostUpdate(1, RF)
    /\ duo_mem[1].stages[RF].status = "completed"
    /\ duo_disk.content.stages[RF].status = "in_progress"
    /\ duo_disk.content = duo_mem[2]

\* another case of C30: the experiment record instance 1 saved is gone from
\* the file
RecordLost ==
    /\ LostUpdate(1, EXP)
    /\ duo_disk.content.stages[EXP] = Absent

\* ------------------------------------------------------------------ C31
\* position of the first occurrence of an event in the trace of the call
Pos(ev) == CHOOSE i \in 1..Len(trace) : trace[i] = ev /\ \A j \in 1..(i - 1) : trace[j] # ev

Happened(ev) == Count(ev) > 0

\* e1 happened, and before e2
Precedes(e1, e2) == Happened(e1) /\ Pos(e1) < Pos(e2)

\* positions of the stage bodies: the runner of an agent stage, the operator prompt
BodyPcs == {"setup", "spawn", "write", "read", "wait"}

InBody(s) ==
    IF s = HR THEN pc = "hr_input" ELSE pc \in BodyPcs /\ agent = s

\* C31: within one call the stages run in the order resource_finder,
\* human_review (when enabled), experiment_runner, one after the other; for a
\* stage that is run, start_stage is saved before the stage body begins (while
\* the body runs the file holds the stage as in_progress and current), and
\* complete_stage is saved after the body (after the launch, and after the
\* kill on a timeout) and before the next stage's start_stage.
C31_StageOrdering ==
    /\ \A s \in Stages :
        /\ Count(<<"start_stage", s>>) <= 1
        /\ Count(<<"complete_stage", s>>) <= 1
        /\ (Happened(<<"start_stage", s>>) /\ Happened(<<"complete_stage", s>>))
              => Pos(<<"start_stage", s>>) < Pos(<<"complete_stage", s>>)
        /\ InBody(s) => /\ Count(<<"start_stage", s>>) = 1
                        /\ Count(<<"complete_stage", s>>) = 0
                        /\ disk.exists
                        /\ disk.content.current_stage = s
                        /\ disk.content.stages[s].status = "in_progress"
                        /\ \A t \in Stages \ {s} : ~InBody(t)
    /\ \A a \in {RF, EXP} :
        Happened(<<"spawn", a>>) =>
            /\ Precedes(<<"start_stage", a>>, <<"spawn", a>>)
            /\ Happened(<<"complete_stage", a>>)
                  => Pos(<<"spawn", a>>) < Pos(<<"complete_stage", a>>)
            /\ Happened(<<"kill", a>>)
                  => Precedes(<<"kill", a>>, <<"complete_stage", a>>)
    /\ Happened(<<"start_stage", HR>>) =>
            /\ flags.pause_after_resources
            /\ Precedes(<<"complete_stage", RF>>, <<"start_stage", HR>>)
    /\ Happened(<<"start_stage", EXP>>) =>
            /\ Precedes(<<"complete_stage", RF>>, <<"start_stage", EXP>>)
            /\ flags.pause_after_resources
                  => Precedes(<<"complete_stage", HR>>, <<"start_stage", EXP>>)
            /\ ~flags.pause_after_resources => ~Happened(<<"start_stage", HR>>)

\* C31 witness: a call that ran the three stages, each started and completed in turn
C31_Witness ==
    /\ pc = "rp_returned"
    /\ \A s \in Stages :
        Happened(<<"start_stage", s>>) /\ Happened(<<"complete_stage", s>>)
    /\ Pos(<<"complete_stage", RF>>) < Pos(<<"start_stage", HR>>)
    /\ Pos(<<"complete_stage", HR>>) < Pos(<<"start_stage", EXP>>)
    /\ Happened(<<"spawn", EXP>>)

\* another case of C31: the experiment-runner process is running, and the file
\* holds the stage as in_progress
ExperimentBodyRunning ==
    /\ pc = "read"
    /\ agent = EXP
    /\ proc[EXP] = "running"
    /\ disk.content.stages[EXP].status = "in_progress"

\* ------------------------------------------------------------------ C32
\* the runner has been reading the agent's output
IOStreamed == io_pc \in {"reading", "closed", "failed", "published"}

\* C32: whatever lines the agent prints, the log file (and the transcript
\* file of the runners that write one) holds exactly those lines, redacted, in
\* the order received, none dropped, duplicated or reordered, also after the
\* stage failed part-way.
C32_OutputOrderAndRetention ==
    IOStreamed =>
        /\ logs["log"] = sanitize_log_file(emitted)
        /\ io_agent \in WithTranscript => logs["jsonl"] = sanitize_log_file(emitted)

\* the part of C32 that is about order and retention alone: up to redaction
\* the files hold the lines received, in order, and every step of the runner
\* only appends to them
OutputOrderKept ==
    [][IOStreamed' =>
          /\ sanitize_log_file(logs["log"])' = sanitize_log_file(emitted)'
          /\ io_agent' \in WithTranscript =>
                sanitize_log_file(logs["jsonl"])' = sanitize_log_file(emitted)'
          /\ io_pc' \in {"reading", "closed", "failed"} =>
                /\ Len(logs["log"])' >= Len(logs["log"])
                /\ SubSeq(logs["log"]', 1, Len(logs["log"])) = logs["log"]
                /\ io_agent \in Sanitizing \cup {EXP, PW} => Len(logs["log"])' = Len(emitted)'
      ]_vars

\* lines were written and the stage then failed part-way: they are still there
PartialOutputKept ==
    /\ io_pc = "failed"
    /\ io_agent = RF
    /\ Len(emitted) = 2
    /\ emitted[1] # emitted[2]
    /\ logs["log"] = sanitize_log_file(emitted)
    /\ logs["jsonl"] = logs["log"]

\* ------------------------------------------------------------------ C33
\* this step is the body of the experiment-runner stage raising an exception
\* other than the timeout: the runner is left from a point before process.wait
EXPBodyRaises ==
    /\ agent = EXP
    /\ pc \in {"setup", "spawn", "write", "read"}
    /\ pc' \notin BodyPcs
    /\ pc' # "idle"

\* the exception of the experiment-runner body was recorded by the running call
EXPRaisedAndRecorded ==
    /\ outcome = "raised"
    /\ Count(<<"start_stage", EXP>>) = 1
    /\ Count(<<"complete_stage", EXP>>) = 1

LegacyRaised ==
    /\ caller = "legacy"
    /\ pc = "exited"
    /\ exit_code = 1
    /\ idea_status = "completed"

\* ------------------------------------------------------------------ C34
\* C34: whenever the orchestrator process has been killed, also in the middle
\* of a write of the state file, the file is loadable by the next
\* PipelineState and holds the state just before or just after the mutation
\* that was being written; it is never empty or cut.
C34_CrashSafeStateFile ==
    /\ sv_pc # "unloadable"
    /\ sv_pc = "dead" =>
          /\ sv_file.kind = "whole"
          /\ sv_file.content \in {Stored(sv_before), Stored(sv_after)}

\* the part of C34 that holds: a kill outside the window between the open and
\* the close of _save leaves a file that loads as the state before the
\* mutation (the mutation not yet written) or as the current state
KillOutsideWriteIsSafe ==
    [][(sv_pc \in {"ready", "opening"} /\ sv_pc' = "dead") =>
          /\ sv_file'.kind = "whole"
          /\ sv_file'.content = Stored(sv_before)
      ]_vars

\* the state file found empty by the next construction, after a kill between
\* the open and the close of a write
StateFileLeftEmpty ==
    /\ sv_pc = "unloadable"
    /\ sv_file.kind = "empty"
    /\ sv_before.stages[RF].status = "completed"

\* ------------------------------------------------------------------ C35
\* this step ends the resource-finder stage without success: its body raises,
\* or process.wait times out and the process is killed, or the process has
\* ended and the completion marker is missing
RFEndsWithoutSuccess ==
    /\ agent = RF
    /\ pc \in BodyPcs
    /\ pc' \notin BodyPcs
    /\ pc' # "idle"
    /\ ~(pc = "wait" /\ proc'[RF] = "exited" /\ marker)

\* the file holds the resource finder as failed and no stage as current
RFFailurePersisted ==
    /\ disk.exists
    /\ disk.content.stages[RF].status = "failed"
    /\ disk.content.stages[RF].success = "False"
    /\ disk.content.current_stage = "None"

\* C35: whenever the resource-finder stage ends without success (marker
\* missing, timeout kill, exception in the stage), by the time run_pipeline
\* returns or raises the resource_finder record is saved as failed with
\* success false and current_stage null; the exception propagates in the same
\* step that saved the record, not before; and for the rest of the call no
\* later stage (human_review, experiment_runner) is started and the record stays.
C35_ResourceFinderFailureAborts ==
    [][ /\ RFEndsWithoutSuccess =>
              /\ RFFailurePersisted'
              /\ RFFailedInCall'
              /\ pc' \in {"rp_returned", "rp_raised"}
              /\ pc' = "rp_raised" <=> pc # "wait"
              /\ trace'[Len(trace')] = <<"complete_stage", RF>>
              /\ ~results'.success
        /\ (RFFailedInCall /\ pc' # "idle") =>
              /\ RFFailedInCall'
              /\ RFFailurePersisted'
              /\ Count(<<"start_stage", HR>>)' = 0
              /\ Count(<<"start_stage", EXP>>)' = 0
              /\ Count(<<"spawn", EXP>>)' = 0
              /\ pc' \in {"rp_returned", "rp_raised", "finalize", "rr_returned", "exited"}
      ]_vars

\* C35 witness: the resource finder raised; run_pipeline raised with the
\* failed record on disk and no later stage started
C35_Witness ==
    /\ pc = "rp_raised"
    /\ outcome = "raised"
    /\ RFFailedInCall
    /\ RFFailurePersisted
    /\ Count(<<"start_stage", EXP>>) = 0

\* other cases of C35: the timeout kill, and the missing marker after exit 0
RFTimedOutRecorded ==
    /\ pc = "rp_returned"
    /\ proc[RF] = "killed"
    /\ RFFailurePersisted

RFMarkerMissingRecorded ==
    /\ pc = "rp_returned"
    /\ proc[RF] = "exited"
    /\ return_code[RF] = 0
    /\ ~marker
    /\ RFFailurePersisted

\* ------------------------------------------------------------------ C36
\* this step ends the body of the resource-finder stage
RFBodyEnds ==
    /\ agent = RF
    /\ pc \in BodyPcs
    /\ pc' \notin BodyPcs
    /\ pc' # "idle"

\* C36: run_resource_finder reports success exactly when process.wait
\* returned (no timeout, no exception before it) and the completion marker
\* exists at that moment, whatever the exit code and whatever Pipeline State
\* held; the marker is created by the agent only, and no step of the runner or
\* the orchestrator creates or removes it.
C36_MarkerDecidesSuccess ==
    [][ /\ RFBodyEnds =>
              LET ended == pc = "wait" /\ proc'[RF] = "exited"
                  reported == results'.stages[RF].present /\ results'.stages[RF].success
              IN  /\ reported <=> (ended /\ marker)
                  /\ state'.stages[RF].success = PyBool(ended /\ marker)
                  /\ marker' = marker
        /\ marker => marker'
        /\ marker' # marker =>
              /\ proc[RF] = "running"
              /\ pc' = pc /\ trace' = trace /\ state' = state /\ disk' = disk
      ]_vars

\* C36 witness: the process exited with code 1, the marker was there, and the
\* stage was reported and recorded as a success
C36_Witness ==
    /\ proc[RF] = "exited"
    /\ return_code[RF] = 1
    /\ marker
    /\ results.stages[RF].present
    /\ results.stages[RF].success
    /\ state.stages[RF].status = "completed"

\* another case of C36: exit code 0 without the marker is a failure
ExitZeroWithoutMarker ==
    /\ proc[RF] = "exited"
    /\ return_code[RF] = 0
    /\ ~marker
    /\ results.stages[RF].present
    /\ ~results.stages[RF].success

\* another case of C36: a marker left by an earlier call decides a later one
StaleMarkerCounts ==
    /\ runs = 2
    /\ marker
    /\ agent = RF
    /\ pc = "setup"

\* ------------------------------------------------------------------ C37
\* the record start_stage writes
StartedRecord == [status |-> "in_progress", started_at |-> TRUE, completed_at |-> FALSE,
                  success |-> "None", outputs |-> "empty"]

\* C37: from any prior state of the record, start_stage(name) sets
\* current_stage to name and replaces the record by one with status
\* in_progress, success unset, completed_at null and empty outputs, so that
\* is_stage_completed(name) is false, and stays false through mark_completed
\* and complete_stage(name, false); complete_stage(name, success, outputs), on
\* the started record or on any other, sets status completed if success else
\* failed, stores success and outputs, and sets current_stage to null.
C37_StartStageResets ==
    \A s \in SaveStages :
        LET started == start_stage(sv_mem, s) IN
        /\ started.current_stage = s
        /\ started.stages[s] = StartedRecord
        /\ ~is_stage_completed(started, s)
        /\ ~is_stage_completed(mark_completed(started), s)
        /\ \A prior \in {sv_mem, started}, ok \in BOOLEAN :
              LET done == complete_stage(prior, s, ok, "result") IN
              /\ done.stages[s].status = (IF ok THEN "completed" ELSE "failed")
              /\ done.stages[s].success = PyBool(ok)
              /\ done.stages[s].completed_at
              /\ done.stages[s].outputs = "result"
              /\ done.stages[s].started_at = prior.stages[s].started_at
              /\ done.current_stage = "None"
              /\ is_stage_completed(done, s) <=> ok

\* C37 witness: start_stage was applied to a stage recorded as completed with
\* outputs, and its record is the started one again
C37_Witness ==
    /\ sv_pc = "opening"
    /\ sv_before.stages[RF].status = "completed"
    /\ sv_before.stages[RF].outputs = "result"
    /\ is_stage_completed(sv_before, RF)
    /\ sv_after = start_stage(sv_before, RF)
    /\ sv_after.stages[RF] = StartedRecord
    /\ sv_after.current_stage = RF

\* other prior states of C37: a failed record, and a record in progress
StartOverFailed ==
    /\ sv_pc = "opening"
    /\ sv_before.stages[EXP].status = "failed"
    /\ sv_after = start_stage(sv_before, EXP)

StartOverInProgress ==
    /\ sv_pc = "opening"
    /\ sv_before.stages[EXP].status = "in_progress"
    /\ sv_before.current_stage = RF
    /\ sv_after = start_stage(sv_before, EXP)

\* ------------------------------------------------------------------ C38
\* C38: over any sequence of run_pipeline / resume_pipeline calls on one
\* working directory, whenever the Pipeline State (in the file or in memory)
\* has completed = True, its experiment_runner record is completed with
\* success: the flag never stands beside an experiment_runner record that a
\* later run left in_progress or failed.
C38_CompletedFlagConsistent ==
    /\ (disk.exists /\ disk.content.completed) => is_stage_completed(disk.content, EXP)
    /\ state.completed => is_stage_completed(state, EXP)

\* the flag of an earlier run beside the failed experiment of a later run
CompletedFlagBesideFailure ==
    /\ runs = 2
    /\ pc = "rp_returned"
    /\ disk.content.completed
    /\ disk.content.stages[EXP].status = "failed"
    /\ ~results.success

\* C39: no agent process outlives its stage. Whenever the runner of an agent is
\* not executing (it has returned or raised, after a normal exit, a timeout or
\* an exception while writing the prompt or reading output), the process it
\* spawned has exited or been killed; so at most one agent process is alive at
\* any time.
C39_NoProcessOutlivesStage ==
    /\ \A a \in Agents : proc[a] = "running" => agent = a
    /\ Cardinality({a \in Agents : proc[a] = "running"}) <= 1

\* the resource finder's readline loop raised and run_pipeline re-raised, with
\* the agent process still running
ProcessAliveAfterStageRaised ==
    /\ pc = "rp_raised"
    /\ IOFailedAfterSpawn(RF)
    /\ disk.content.stages[RF].status = "failed"

\* the paper writer captured an exception and returned, its process still running
ProcessAliveAfterPaperWriterReturned ==
    /\ pc = "rr_returned"
    /\ IOFailedAfterSpawn(PW)
    /\ paper = "error"

\* ------------------------------------------------------------------ C40
\* st and after agree on everything but the record of stage name and current_stage
SameButStage(st, after, name) ==
    /\ \A other \in Stages \ {name} : after.stages[other] = st.stages[other]
    /\ after.created_at = st.created_at
    /\ after.completed = st.completed
    /\ after.completed_at = st.completed_at

\* C40: start_stage(name) and complete_stage(name, ...) change only the record
\* of the named stage and current_stage: every other stage's record,
\* created_at and the whole-pipeline completed flag are left as they were;
\* mark_completed changes only completed and completed_at: all stage records
\* and current_stage are left as they were. The same holds for what _save
\* writes to the state file.
C40_MutationFrame ==
    /\ \A s \in SaveStages :
        /\ SameButStage(sv_mem, start_stage(sv_mem, s), s)
        /\ SameButStage(Stored(sv_mem), Stored(start_stage(sv_mem, s)), s)
        /\ \A ok \in BOOLEAN :
            /\ SameButStage(sv_mem, complete_stage(sv_mem, s, ok, "result"), s)
            /\ SameButStage(Stored(sv_mem),
                            Stored(complete_stage(sv_mem, s, ok, "result")), s)
    /\ LET marked == mark_completed(sv_mem) IN
        /\ marked.stages = sv_mem.stages
        /\ marked.current_stage = sv_mem.current_stage
        /\ marked.created_at = sv_mem.created_at
        /\ Stored(marked).stages = Stored(sv_mem).stages
        /\ Stored(marked).current_stage = Stored(sv_mem).current_stage
        /\ Stored(marked).created_at = Stored(sv_mem).created_at

\* C40 witness: mark_completed was applied while a stage was in progress, and
\* the stage is still the current one with its record as it was
C40_Witness ==
    /\ sv_pc = "opening"
    /\ ~sv_before.completed
    /\ sv_before.current_stage = EXP
    /\ sv_before.stages[EXP].status = "in_progress"
    /\ sv_before.stages[RF].status = "completed"
    /\ sv_after = mark_completed(sv_before)
    /\ sv_after.completed /\ sv_after.completed_at = "timestamp"
    /\ sv_after.current_stage = EXP
    /\ sv_after.stages = sv_before.stages

\* other cases of C40: a stage is started, and a stage is completed, in a state
\* whose completed flag is set and whose other stage has a record with outputs
StartKeepsTheRest ==
    /\ sv_pc = "opening"
    /\ sv_before.completed
    /\ sv_before.stages[RF].outputs = "result"
    /\ sv_before.stages[EXP].status # "in_progress"
    /\ sv_after = start_stage(sv_before, EXP)
    /\ SameButStage(sv_before, sv_after, EXP)

CompleteKeepsTheRest ==
    /\ sv_pc = "opening"
    /\ sv_before.completed
    /\ sv_before.stages[RF].status = "in_progress"
    /\ sv_after = complete_stage(sv_before, EXP, FALSE, "result")
    /\ sv_after.stages[EXP].status = "failed"
    /\ SameButStage(sv_before, sv_after, EXP)

====
